---- MODULE Spec2Model ----
(***************************************************************************)
(* Scholar AI: the client-side API-key rotation (services/geminiService)   *)
(* and the OTP authentication handlers of server.js.                       *)
(*                                                                         *)
(*   SpecRot : the credential pool, the rotation cursor and the calls that *)
(*             acquire a transport, made one after another.                *)
(*   Spec    : the auth handlers, each request run to completion, against  *)
(*             the store that mongoReady() selects.                        *)
(***************************************************************************)
EXTENDS Integers, Sequences, FiniteSets, TLC

VARIABLES
    apiKeys,        \* geminiService: the deduplicated credential pool
    currentIndex,   \* geminiService: the rotation cursor
    calls,          \* history: one entry per resolver call, in call order
    mongoUsers,     \* server.js: documents of the User collection
    memoryUsers,    \* server.js: the in-memory fallback list
    mongoReady,     \* server.js: mongoose.connection.readyState === 1
    now,            \* Date.now(), in milliseconds
    last,           \* history: the last request handled and its response
    spentOtp,       \* history: per email, the signup OTP accepted since the last issuance
    pending,        \* server.js: per request in flight, the document it holds until save()
    serverKey,      \* server.js: process.env.GEMINI_API_KEY
    ai,             \* history: the last AI request, what the provider did and the result
    form            \* Auth.tsx: the component's state, its submit in flight, its timers

vars == <<apiKeys, currentIndex, calls, mongoUsers, memoryUsers, mongoReady, now, last,
          spentOtp, pending, serverKey, ai, form>>

rotVars == <<apiKeys, currentIndex, calls>>
authVars == <<mongoUsers, memoryUsers, mongoReady, now, last, spentOtp, pending>>
aiVars == <<serverKey, ai>>

\* A missing request field, an unset environment variable, a cleared string field.
Undefined == "<undefined>"

(***************************************************************************)
(* Bounds of the model.                                                    *)
(***************************************************************************)
\* Number of configuration slots read (the code reads ten).
NumSlots == 4
\* Longest history of resolver calls explored.
MaxCalls == 5
\* Number of clock ticks explored.
MaxTicks == 2

(***************************************************************************)
(* Credential pool (geminiService, lines 9-27).                            *)
(***************************************************************************)
\* Values a configuration slot can hold: unset, empty, blank, or a key.
CandidateValues == {Undefined, "", " ", "key-A", "key-B", "key-C"}

\* String.prototype.trim() on the slot values of the model.
Trim(k) == IF k = " " THEN "" ELSE k

\* JS truthiness of a slot value, typeof k === 'string', k.trim().length > 0.
IsValidKey(k) == k # Undefined /\ k # "" /\ Trim(k) # ""

RECURSIVE FilterValid(_)
FilterValid(cands) ==
    IF cands = <<>> THEN <<>>
    ELSE IF IsValidKey(Head(cands))
         THEN <<Head(cands)>> \o FilterValid(Tail(cands))
         ELSE FilterValid(Tail(cands))

Contains(s, x) == \E i \in 1..Len(s) : s[i] = x

\* [...new Set(validKeys)]: insertion order, first occurrence kept.
RECURSIVE DedupeInto(_, _)
DedupeInto(acc, rest) ==
    IF rest = <<>> THEN acc
    ELSE IF Contains(acc, Head(rest))
         THEN DedupeInto(acc, Tail(rest))
         ELSE DedupeInto(Append(acc, Head(rest)), Tail(rest))

BuildApiKeys(cands) == DedupeInto(<<>>, FilterValid(cands))

useServerProxy == Len(apiKeys) = 0

(***************************************************************************)
(* Rotation (geminiService, lines 33-85). The pool is a JS array, indexed  *)
(* from 0: apiKeys[i] of the code is KeyAt(i) here.                        *)
(***************************************************************************)
KeyAt(i) == IF i >= 0 /\ i < Len(apiKeys) THEN apiKeys[i + 1] ELSE Undefined

NextIndexNoWrap(i) == IF Len(apiKeys) > 1 THEN i + 1 ELSE i

NextIndexShortCycle(i) == IF Len(apiKeys) > 1 THEN (i + 1) % (Len(apiKeys) - 1) ELSE i

\* if (apiKeys.length > 1) currentIndex = (currentIndex + 1) % apiKeys.length
NextIndex(i) == IF Len(apiKeys) > 1 THEN (i + 1) % Len(apiKeys) ELSE i

TransportProxyNever(key) == [kind |-> "direct", key |-> key]

\* What getAIClient returns: the fetch adapter, or a GoogleGenAI client on a key.
Transport(key) ==
    IF useServerProxy THEN [kind |-> "proxy", key |-> Undefined]
    ELSE [kind |-> "direct", key |-> key]

\* The exported functions that start with `const ai = getAIClient()`.
GenerationFunctions ==
    {"generateStudyNotes", "generateFlashcards", "generateQuiz",
     "getMotivationalMessage", "getChatResponse"}

\* One generation call: getAIClient, then ai.models.generateContent on what it
\* returned (POST /api/ai/generate for the adapter, the SDK for a client).
getAIClient(fn) ==
    /\ Len(calls) < MaxCalls
    /\ LET key == KeyAt(currentIndex)
           t   == Transport(key)
       IN  /\ calls' = Append(calls, [fn |-> fn, kind |-> t.kind, key |-> t.key,
                                      index |-> currentIndex])
           /\ currentIndex' = IF useServerProxy THEN currentIndex
                              ELSE NextIndex(currentIndex)
    /\ UNCHANGED <<apiKeys, authVars, aiVars, form>>

\* The test helper: returns null under the proxy, else the key, and rotates.
chooseKeyForTest ==
    /\ Len(calls) < MaxCalls
    /\ IF useServerProxy
       THEN /\ calls' = Append(calls, [fn |-> "_chooseKeyForTest", kind |-> "null",
                                       key |-> Undefined, index |-> currentIndex])
            /\ UNCHANGED currentIndex
       ELSE /\ calls' = Append(calls, [fn |-> "_chooseKeyForTest", kind |-> "key",
                                       key |-> KeyAt(currentIndex),
                                       index |-> currentIndex])
            /\ currentIndex' = NextIndex(currentIndex)
    /\ UNCHANGED <<apiKeys, authVars, aiVars, form>>

(***************************************************************************)
(* Auth service (server.js). A user record has the fields of UserSchema;   *)
(* a string field that is not set holds Undefined, a date that is not set  *)
(* holds NoDate.                                                           *)
(***************************************************************************)
NoDate == -1

\* 5 * 60 * 1000 of every `Date.now() + 5 * 60 * 1000`.
OTP_TTL_MS == 5 * 60 * 1000

\* The clock of the model advances in steps of one OTP lifetime, so that a code
\* is presented before its expiry, exactly at it, or after it.
TickMs == OTP_TTL_MS

Emails == {"ana@x.com"}
Names == {"Ana", "Bob"}
Passwords == {"secret1", "secret2"}

\* crypto.randomInt(100000, 999999).toString(): the upper end is exclusive.
\* OtpDraws is the sample of 100000..999998 the model draws from.
OtpDraws == {100000, 999998}
generateOTP == {ToString(n) : n \in OtpDraws}

\* Values a request body field can hold. Every request of the model names an
\* email; the other fields may be missing.
EmailInputs == Emails
NameInputs == Names \cup {Undefined}
PasswordInputs == Passwords \cup {Undefined}
OtpInputs == generateOTP \cup {Undefined}

\* !x for a request field: missing or the empty string.
Falsy(x) == x = Undefined \/ x = ""

\* bcrypt.hash(password, 10): a hash that embeds what compare needs.
BcryptHash(password) == <<"$2a$10$", password>>
\* bcrypt.compare(password, hash), for a string password.
BcryptCompare(password, hash) == hash = BcryptHash(password)
\* bcrypt.compare rejects ("Illegal arguments") when password is not a string.
BcryptThrows(password) == password = Undefined

NoUser == [name |-> Undefined, email |-> Undefined]

\* users.find(u => u.email === email) / User.findOne({ email }): the position
\* of the first record with that email, 0 when there is none.
Find(users, email) ==
    IF \E i \in 1..Len(users) : users[i].email = email
    THEN CHOOSE i \in 1..Len(users) :
             /\ users[i].email = email
             /\ \A j \in 1..(i - 1) : users[j].email # email
    ELSE 0

\* new User({...}) / memoryUsers.push({...}) of signup.
NewUser(name, email, hashed, otp, t) ==
    [name |-> name, email |-> email, password |-> hashed, isVerified |-> FALSE,
     otp |-> otp, otpExpiry |-> t + OTP_TTL_MS,
     resetOtp |-> Undefined, resetOtpExpiry |-> NoDate]

IssueOtpKeepExpiry(u, otp, t) == [u EXCEPT !.otp = otp]

\* user.otp = otp; user.otpExpiry = Date.now() + 5 * 60 * 1000
IssueOtp(u, otp, t) == [u EXCEPT !.otp = otp, !.otpExpiry = t + OTP_TTL_MS]

IssueResetOtpOverOtp(u, otp, t) ==
    [u EXCEPT !.otp = otp, !.otpExpiry = t + OTP_TTL_MS,
              !.resetOtp = otp, !.resetOtpExpiry = t + OTP_TTL_MS]

\* user.resetOtp = otp; user.resetOtpExpiry = Date.now() + 5 * 60 * 1000
IssueResetOtp(u, otp, t) ==
    [u EXCEPT !.resetOtp = otp, !.resetOtpExpiry = t + OTP_TTL_MS]

OtpRejectedAtExpiry(u, otp, t) ==
    u.otp # otp \/ u.otpExpiry = NoDate \/ u.otpExpiry = 0 \/ u.otpExpiry <= t

\* user.otp !== otp || !user.otpExpiry || user.otpExpiry < Date.now()
OtpRejected(u, otp, t) ==
    u.otp # otp \/ u.otpExpiry = NoDate \/ u.otpExpiry = 0 \/ u.otpExpiry < t

MarkVerifiedKeepOtp(u) == [u EXCEPT !.isVerified = TRUE]

\* user.isVerified = true; user.otp = undefined; user.otpExpiry = undefined
MarkVerified(u) ==
    [u EXCEPT !.isVerified = TRUE, !.otp = Undefined, !.otpExpiry = NoDate]

ResetRejectedNoExpiry(u, otp, t) == u.resetOtp # otp

\* user.resetOtp !== otp || !user.resetOtpExpiry || user.resetOtpExpiry < Date.now()
ResetRejected(u, otp, t) ==
    \/ u.resetOtp # otp
    \/ u.resetOtpExpiry = NoDate \/ u.resetOtpExpiry = 0
    \/ u.resetOtpExpiry < t

ApplyResetMarksVerified(u, hashed) ==
    [u EXCEPT !.password = hashed, !.resetOtp = Undefined, !.resetOtpExpiry = NoDate,
              !.isVerified = TRUE]

\* user.password = hashed; user.resetOtp = undefined; user.resetOtpExpiry = undefined
ApplyReset(u, hashed) ==
    [u EXCEPT !.password = hashed, !.resetOtp = Undefined, !.resetOtpExpiry = NoDate]

BlocksDuplicateNever(u) == FALSE

\* if (exists.isVerified) return res.status(409)
BlocksDuplicate(u) == u.isVerified

\* What a handler leaves behind: both stores and the response.
Result(mongo, memory, path, status, message, user) ==
    [mongo |-> mongo, memory |-> memory, path |-> path,
     status |-> status, message |-> message, user |-> user, mail |-> "none"]

\* The handler reached its call of sendEmail, which resolved or rejected.
Mailed(mailOk, r) == [r EXCEPT !.mail = IF mailOk THEN "sent" ELSE "failed"]

UserOf(u) == [name |-> u.name, email |-> u.email]

(***************************************************************************)
(* The handlers. Each takes the two stores, what mongoReady() returns when *)
(* the handler evaluates it, the request fields, the values drawn inside   *)
(* (generateOTP, whether sendEmail succeeds) and Date.now().               *)
(***************************************************************************)

SignupMongoFailsOnMailError(mongo, memory, name, email, password, otp, mailOk, t) ==
    LET i == Find(mongo, email) IN
    IF i # 0
    THEN IF BlocksDuplicate(mongo[i])
         THEN Result(mongo, memory, "mongo", 409, "User exists", NoUser)
         ELSE LET saved == [mongo EXCEPT ![i] = IssueOtp(mongo[i], otp, t)] IN
              Mailed(mailOk,
              IF mailOk
              THEN Result(saved, memory, "mongo", 200,
                          "User exists but not verified - OTP resent", NoUser)
              ELSE Result(saved, memory, "mongo", 500, "Signup failed", NoUser))
    ELSE LET saved == Append(mongo, NewUser(name, email, BcryptHash(password), otp, t)) IN
         Mailed(mailOk,
         IF mailOk
         THEN Result(saved, memory, "mongo", 200, "OTP sent to email", NoUser)
         ELSE Result(saved, memory, "mongo", 500, "Signup failed", NoUser))

\* POST /api/signup, if (mongoReady()) { ... }
SignupMongo(mongo, memory, name, email, password, otp, mailOk, t) ==
    LET i == Find(mongo, email) IN
    IF i # 0
    THEN IF BlocksDuplicate(mongo[i])
         THEN Result(mongo, memory, "mongo", 409, "User exists", NoUser)
         ELSE LET saved == [mongo EXCEPT ![i] = IssueOtp(mongo[i], otp, t)] IN
              Mailed(mailOk,
              IF mailOk
              THEN Result(saved, memory, "mongo", 200,
                          "User exists but not verified - OTP resent", NoUser)
              ELSE Result(saved, memory, "mongo", 200,
                          "User exists but failed to send OTP email. Please request resend.",
                          NoUser))
    ELSE LET saved == Append(mongo, NewUser(name, email, BcryptHash(password), otp, t)) IN
         Mailed(mailOk,
         IF mailOk
         THEN Result(saved, memory, "mongo", 200, "OTP sent to email", NoUser)
         ELSE Result(saved, memory, "mongo", 200,
                     "User created but failed to send OTP email. Please request resend.",
                     NoUser))

SignupMemoryPushesAgain(mongo, memory, name, email, password, otp, mailOk, t) ==
    LET i == Find(memory, email) IN
    IF i # 0 /\ BlocksDuplicate(memory[i])
    THEN Result(mongo, memory, "memory", 409, "User exists", NoUser)
    ELSE LET stored == Append(memory, NewUser(name, email, BcryptHash(password), otp, t)) IN
         Mailed(mailOk,
         IF mailOk
         THEN Result(mongo, stored, "memory", 200, "OTP sent to email (memory)", NoUser)
         ELSE Result(mongo, stored, "memory", 200,
                     "User created but failed to send OTP email. Please request resend.",
                     NoUser))

\* POST /api/signup, memory fallback
SignupMemory(mongo, memory, name, email, password, otp, mailOk, t) ==
    LET i == Find(memory, email) IN
    IF i # 0
    THEN IF BlocksDuplicate(memory[i])
         THEN Result(mongo, memory, "memory", 409, "User exists", NoUser)
         ELSE LET stored == [memory EXCEPT ![i] = IssueOtp(memory[i], otp, t)] IN
              Mailed(mailOk,
              IF mailOk
              THEN Result(mongo, stored, "memory", 200,
                          "User exists but not verified - OTP resent (memory)", NoUser)
              ELSE Result(mongo, stored, "memory", 200,
                          "User exists but failed to send OTP email. Please request resend.",
                          NoUser))
    ELSE LET stored == Append(memory, NewUser(name, email, BcryptHash(password), otp, t)) IN
         Mailed(mailOk,
         IF mailOk
         THEN Result(mongo, stored, "memory", 200, "OTP sent to email (memory)", NoUser)
         ELSE Result(mongo, stored, "memory", 200,
                     "User created but failed to send OTP email. Please request resend.",
                     NoUser))

\* POST /api/signup
SignupHandler(mongo, memory, ready, name, email, password, otp, mailOk, t) ==
    IF Falsy(name) \/ Falsy(email) \/ Falsy(password)
    THEN Result(mongo, memory, "none", 400, "All fields required", NoUser)
    ELSE IF ready
         THEN SignupMongo(mongo, memory, name, email, password, otp, mailOk, t)
         ELSE SignupMemory(mongo, memory, name, email, password, otp, mailOk, t)

LoginComparesFirst(mongo, memory, ready, email, password) ==
    LET users == IF ready THEN mongo ELSE memory
        path  == IF ready THEN "mongo" ELSE "memory"
        i     == Find(users, email)
    IN  IF i = 0
        THEN Result(mongo, memory, path, 401, "Invalid credentials", NoUser)
        ELSE IF BcryptThrows(password)
        THEN Result(mongo, memory, path, 500, "Login failed", NoUser)
        ELSE IF ~BcryptCompare(password, users[i].password)
        THEN Result(mongo, memory, path, 401, "Invalid credentials", NoUser)
        ELSE IF users[i].isVerified = FALSE
        THEN Result(mongo, memory, path, 403, "Please verify your email first", NoUser)
        ELSE Result(mongo, memory, path, 200, "Login successful", UserOf(users[i]))

LoginSkipsVerification(mongo, memory, ready, email, password) ==
    LET users == IF ready THEN mongo ELSE memory
        path  == IF ready THEN "mongo" ELSE "memory"
        i     == Find(users, email)
    IN  IF i = 0
        THEN Result(mongo, memory, path, 401, "Invalid credentials", NoUser)
        ELSE IF BcryptThrows(password)
        THEN Result(mongo, memory, path, 500, "Login failed", NoUser)
        ELSE IF ~BcryptCompare(password, users[i].password)
        THEN Result(mongo, memory, path, 401, "Invalid credentials", NoUser)
        ELSE Result(mongo, memory, path, 200, "Login successful", UserOf(users[i]))

\* POST /api/login
LoginHandler(mongo, memory, ready, email, password) ==
    LET users == IF ready THEN mongo ELSE memory
        path  == IF ready THEN "mongo" ELSE "memory"
        i     == Find(users, email)
    IN  IF i = 0
        THEN Result(mongo, memory, path, 401, "Invalid credentials", NoUser)
        ELSE IF users[i].isVerified = FALSE
        THEN Result(mongo, memory, path, 403, "Please verify your email first", NoUser)
        ELSE IF BcryptThrows(password)
        THEN Result(mongo, memory, path, 500, "Login failed", NoUser)
        ELSE IF ~BcryptCompare(password, users[i].password)
        THEN Result(mongo, memory, path, 401, "Invalid credentials", NoUser)
        ELSE Result(mongo, memory, path, 200, "Login successful", UserOf(users[i]))

\* POST /api/verify-otp
VerifyOtpHandler(mongo, memory, ready, email, otp, t) ==
    IF Falsy(email) \/ Falsy(otp)
    THEN Result(mongo, memory, "none", 400, "Email and OTP required", NoUser)
    ELSE IF ready
    THEN LET i == Find(mongo, email) IN
         IF i = 0
         THEN Result(mongo, memory, "mongo", 400, "User not found", NoUser)
         ELSE IF OtpRejected(mongo[i], otp, t)
         THEN Result(mongo, memory, "mongo", 400, "Invalid or expired OTP", NoUser)
         ELSE Result([mongo EXCEPT ![i] = MarkVerified(mongo[i])], memory, "mongo",
                     200, "Account verified successfully", NoUser)
    ELSE LET i == Find(memory, email) IN
         IF i = 0
         THEN Result(mongo, memory, "memory", 400, "User not found", NoUser)
         ELSE IF OtpRejected(memory[i], otp, t)
         THEN Result(mongo, memory, "memory", 400, "Invalid or expired OTP", NoUser)
         ELSE Result(mongo, [memory EXCEPT ![i] = MarkVerified(memory[i])], "memory",
                     200, "Account verified successfully (memory)", NoUser)

ResendOtpSwallowsBoth(mongo, memory, ready, email, otp, mailOk, t) ==
    IF Falsy(email)
    THEN Result(mongo, memory, "none", 400, "Email required", NoUser)
    ELSE LET users == IF ready THEN mongo ELSE memory
             path  == IF ready THEN "mongo" ELSE "memory"
             i     == Find(users, email)
         IN  IF i = 0
             THEN Result(mongo, memory, path, 400, "User not found", NoUser)
             ELSE LET changed == [users EXCEPT ![i] = IssueOtp(users[i], otp, t)] IN
                  Mailed(mailOk,
                         Result(IF ready THEN changed ELSE mongo,
                                IF ready THEN memory ELSE changed,
                                path, 200,
                                IF ready THEN "OTP resent" ELSE "OTP resent (memory)",
                                NoUser))

\* POST /api/resend-otp. In the mongo branch sendEmail is awaited bare, so its
\* rejection reaches the handler's catch; the memory branch ends in .catch(()=>{}).
ResendOtpHandler(mongo, memory, ready, email, otp, mailOk, t) ==
    IF Falsy(email)
    THEN Result(mongo, memory, "none", 400, "Email required", NoUser)
    ELSE IF ready
    THEN LET i == Find(mongo, email) IN
         IF i = 0
         THEN Result(mongo, memory, "mongo", 400, "User not found", NoUser)
         ELSE LET saved == [mongo EXCEPT ![i] = IssueOtp(mongo[i], otp, t)] IN
              Mailed(mailOk,
              IF mailOk
              THEN Result(saved, memory, "mongo", 200, "OTP resent", NoUser)
              ELSE Result(saved, memory, "mongo", 500, "Resend OTP failed", NoUser))
    ELSE LET i == Find(memory, email) IN
         IF i = 0
         THEN Result(mongo, memory, "memory", 400, "User not found", NoUser)
         ELSE Mailed(mailOk,
                     Result(mongo, [memory EXCEPT ![i] = IssueOtp(memory[i], otp, t)],
                            "memory", 200, "OTP resent (memory)", NoUser))

VerifyAndLoginComparesFirst(mongo, memory, ready, email, otp, password, t) ==
    IF Falsy(email) \/ Falsy(otp) \/ Falsy(password)
    THEN Result(mongo, memory, "none", 400, "Email, OTP and password required", NoUser)
    ELSE LET users == IF ready THEN mongo ELSE memory
             path  == IF ready THEN "mongo" ELSE "memory"
             i     == Find(users, email)
         IN  IF i = 0
             THEN Result(mongo, memory, path, 400, "User not found", NoUser)
             ELSE IF OtpRejected(users[i], otp, t)
             THEN Result(mongo, memory, path, 400, "Invalid or expired OTP", NoUser)
             ELSE IF ~BcryptCompare(password, users[i].password)
             THEN Result(mongo, memory, path, 401, "Invalid credentials", NoUser)
             ELSE LET changed == [users EXCEPT ![i] = MarkVerified(users[i])] IN
                  Result(IF ready THEN changed ELSE mongo,
                         IF ready THEN memory ELSE changed,
                         path, 200, "Login successful", UserOf(changed[i]))

\* POST /api/verify-and-login
VerifyAndLoginHandler(mongo, memory, ready, email, otp, password, t) ==
    IF Falsy(email) \/ Falsy(otp) \/ Falsy(password)
    THEN Result(mongo, memory, "none", 400, "Email, OTP and password required", NoUser)
    ELSE IF ready
    THEN LET i == Find(mongo, email) IN
         IF i = 0
         THEN Result(mongo, memory, "mongo", 400, "User not found", NoUser)
         ELSE IF OtpRejected(mongo[i], otp, t)
         THEN Result(mongo, memory, "mongo", 400, "Invalid or expired OTP", NoUser)
         ELSE LET saved == [mongo EXCEPT ![i] = MarkVerified(mongo[i])] IN
              IF ~BcryptCompare(password, saved[i].password)
              THEN Result(saved, memory, "mongo", 401, "Invalid credentials", NoUser)
              ELSE Result(saved, memory, "mongo", 200, "Login successful",
                          UserOf(saved[i]))
    ELSE LET i == Find(memory, email) IN
         IF i = 0
         THEN Result(mongo, memory, "memory", 400, "User not found", NoUser)
         ELSE IF OtpRejected(memory[i], otp, t)
         THEN Result(mongo, memory, "memory", 400, "Invalid or expired OTP", NoUser)
         ELSE LET stored == [memory EXCEPT ![i] = MarkVerified(memory[i])] IN
              IF ~BcryptCompare(password, stored[i].password)
              THEN Result(mongo, stored, "memory", 401, "Invalid credentials", NoUser)
              ELSE Result(mongo, stored, "memory", 200, "Login successful",
                          UserOf(stored[i]))

\* POST /api/forgot-password. mongoReady() is evaluated twice: readyAtFind
\* picks the store the user is read from, readyAtSave the branch that stores.
\* A memory record has no save(): with readyAtSave its fields are set in place
\* and the call of save throws. A document that is not saved leaves the
\* collection as it was.
ForgotPasswordHandler(mongo, memory, readyAtFind, readyAtSave, email, otp, mailOk, t) ==
    IF Falsy(email)
    THEN Result(mongo, memory, "none", 400, "Email required", NoUser)
    ELSE LET users == IF readyAtFind THEN mongo ELSE memory
             path  == IF readyAtFind THEN "mongo" ELSE "memory"
             i     == Find(users, email)
         IN  IF i = 0
             THEN Result(mongo, memory, path, 400, "User not found", NoUser)
             ELSE LET changed == [users EXCEPT ![i] = IssueResetOtp(users[i], otp, t)] IN
                  IF readyAtFind /\ readyAtSave
                  THEN Mailed(mailOk, Result(changed, memory, path, 200,
                                             "Reset OTP sent", NoUser))
                  ELSE IF ~readyAtFind /\ readyAtSave
                  THEN Result(mongo, changed, path, 500, "Forgot password failed", NoUser)
                  ELSE IF readyAtFind /\ ~readyAtSave
                  THEN Mailed(mailOk, Result(mongo, memory, path, 200,
                                             "Reset OTP sent", NoUser))
                  ELSE Mailed(mailOk, Result(mongo, changed, path, 200,
                                             "Reset OTP sent", NoUser))

\* POST /api/reset-password, with the same two evaluations of mongoReady().
ResetPasswordHandler(mongo, memory, readyAtFind, readyAtSave, email, otp, newPassword, t) ==
    IF Falsy(email) \/ Falsy(otp) \/ Falsy(newPassword)
    THEN Result(mongo, memory, "none", 400, "All fields required", NoUser)
    ELSE LET users == IF readyAtFind THEN mongo ELSE memory
             path  == IF readyAtFind THEN "mongo" ELSE "memory"
             i     == Find(users, email)
         IN  IF i = 0
             THEN Result(mongo, memory, path, 400, "Invalid or expired OTP", NoUser)
             ELSE IF ResetRejected(users[i], otp, t)
             THEN Result(mongo, memory, path, 400, "Invalid or expired OTP", NoUser)
             ELSE LET changed == [users EXCEPT
                                     ![i] = ApplyReset(users[i], BcryptHash(newPassword))]
                  IN
                  IF readyAtFind /\ readyAtSave
                  THEN Result(changed, memory, path, 200, "Password reset successful", NoUser)
                  ELSE IF ~readyAtFind /\ readyAtSave
                  THEN Result(mongo, changed, path, 500, "Reset password failed", NoUser)
                  ELSE IF readyAtFind /\ ~readyAtSave
                  THEN Result(mongo, memory, path, 200, "Password reset successful", NoUser)
                  ELSE Result(mongo, changed, path, 200, "Password reset successful", NoUser)

\* Requests that can be in flight at once, and the mark of a free slot.
RequestSlots == {1, 2}
Idle == [op |-> "idle"]

\* `ai` before any AI request.
NoAiCall == [fn |-> "none"]

(***************************************************************************)
(* Requests handled one at a time. `last` keeps the request and response.  *)
(***************************************************************************)
\* The request had its OTP accepted by the check of verify-otp / verify-and-login.
OtpAccepted(op, r) ==
    \/ op = "verify-otp" /\ r.status = 200
    \/ op = "verify-and-login" /\ r.status \in {200, 401}

\* The request stored a newly generated signup OTP.
OtpIssued(op, r) ==
    \/ op = "signup" /\ r.status = 200
    \/ op = "resend-otp" /\ r.status \in {200, 500}

\* The handler has run to its response: the stores and `last` take its result.
Respond(op, email, otp, password, result) ==
    \E r \in {result} :
        /\ mongoUsers' = r.mongo
        /\ memoryUsers' = r.memory
        /\ spentOtp' = IF OtpAccepted(op, r) THEN [spentOtp EXCEPT ![email] = otp]
                       ELSE IF OtpIssued(op, r) THEN [spentOtp EXCEPT ![email] = Undefined]
                       ELSE spentOtp
        /\ last' = [op |-> op, path |-> r.path, email |-> email, otp |-> otp,
                    password |-> password, mail |-> r.mail,
                    status |-> r.status, message |-> r.message, user |-> r.user]
        /\ UNCHANGED <<mongoReady, now, pending, rotVars, aiVars, form>>

\* What the handler draws once the request has passed its check of required
\* fields: an OTP and the outcome of sendEmail. A refused request draws nothing.
DrawsOtp(valid) == IF valid THEN generateOTP ELSE {Undefined}
DrawsMail(valid) == IF valid THEN BOOLEAN ELSE {TRUE}

Signup ==
    \E name \in NameInputs, email \in EmailInputs, password \in PasswordInputs :
    \E otp \in DrawsOtp(~(Falsy(name) \/ Falsy(email) \/ Falsy(password))),
       mailOk \in DrawsMail(~(Falsy(name) \/ Falsy(email) \/ Falsy(password))) :
        Respond("signup", email, Undefined, password,
                SignupHandler(mongoUsers, memoryUsers, mongoReady,
                              name, email, password, otp, mailOk, now))

Login ==
    \E email \in EmailInputs, password \in PasswordInputs :
        Respond("login", email, Undefined, password,
                LoginHandler(mongoUsers, memoryUsers, mongoReady, email, password))

VerifyOtp ==
    \E email \in EmailInputs, otp \in OtpInputs :
        Respond("verify-otp", email, otp, Undefined,
                VerifyOtpHandler(mongoUsers, memoryUsers, mongoReady, email, otp, now))

ResendOtp ==
    \E email \in EmailInputs, otp \in generateOTP, mailOk \in BOOLEAN :
        Respond("resend-otp", email, Undefined, Undefined,
                ResendOtpHandler(mongoUsers, memoryUsers, mongoReady,
                                 email, otp, mailOk, now))

VerifyAndLogin ==
    \E email \in EmailInputs, otp \in OtpInputs, password \in PasswordInputs :
        Respond("verify-and-login", email, otp, password,
                VerifyAndLoginHandler(mongoUsers, memoryUsers, mongoReady,
                                      email, otp, password, now))

ForgotPassword ==
    \E email \in EmailInputs, otp \in generateOTP, mailOk \in BOOLEAN :
        Respond("forgot-password", email, Undefined, Undefined,
                ForgotPasswordHandler(mongoUsers, memoryUsers, mongoReady, mongoReady,
                                      email, otp, mailOk, now))

ResetPassword ==
    \E email \in EmailInputs, otp \in OtpInputs, newPassword \in PasswordInputs :
        Respond("reset-password", email, otp, newPassword,
                ResetPasswordHandler(mongoUsers, memoryUsers, mongoReady, mongoReady,
                                     email, otp, newPassword, now))

\* Time passes between requests.
Tick ==
    /\ now < MaxTicks * TickMs
    /\ now' = now + TickMs
    /\ UNCHANGED <<mongoUsers, memoryUsers, mongoReady, last, spentOtp, pending, rotVars,
                   aiVars, form>>

\* type AuthMode
AuthModes == {"LOGIN", "SIGNUP", "FORGOT_PASSWORD", "OTP_VERIFY", "RESET_PASSWORD"}

\* otp: ['', '', '', '', '', '']
EmptyOtp == [i \in 1..6 |-> ""]

\* No handleSubmit is awaiting a response.
NoRun == [mode |-> "none"]

\* The useState initial values of Auth.
AuthMounted ==
    [mode |-> "LOGIN", loading |-> FALSE, error |-> "", success |-> "",
     name |-> "", email |-> "", password |-> "", confirmPassword |-> "",
     otp |-> EmptyOtp, run |-> NoRun, timers |-> {}, loggedIn |-> FALSE]

RotIdle ==
    /\ apiKeys = <<>>
    /\ currentIndex = 0
    /\ calls = <<>>

\* No request is in flight.
NoPending == [slot \in RequestSlots |-> Idle]

\* No AI request has been made; no server key matters yet.
AiIdle ==
    /\ serverKey = Undefined
    /\ ai = NoAiCall

NoRequest ==
    [op |-> "none", path |-> "none", email |-> Undefined, otp |-> Undefined,
     password |-> Undefined, mail |-> "none",
     status |-> 0, message |-> "", user |-> NoUser]

\* The server has started; the database is connected or it is not.
Init ==
    /\ mongoUsers = <<>>
    /\ memoryUsers = <<>>
    /\ mongoReady \in BOOLEAN
    /\ now = 0
    /\ last = NoRequest
    /\ spentOtp = [e \in Emails |-> Undefined]
    /\ pending = NoPending
    /\ RotIdle
    /\ AiIdle
    /\ form = AuthMounted

Next ==
    \/ Signup
    \/ Login
    \/ VerifyOtp
    \/ ResendOtp
    \/ VerifyAndLogin
    \/ ForgotPassword
    \/ ResetPassword
    \/ Tick

Spec == Init /\ [][Next]_vars

AuthIdle ==
    /\ mongoUsers = <<>>
    /\ memoryUsers = <<>>
    /\ mongoReady = FALSE
    /\ now = 0
    /\ last = NoRequest
    /\ spentOtp = [e \in Emails |-> Undefined]
    /\ pending = NoPending

InitRot ==
    /\ \E cands \in [1..NumSlots -> CandidateValues] : apiKeys = BuildApiKeys(cands)
    /\ currentIndex = 0
    /\ calls = <<>>
    /\ AuthIdle
    /\ AiIdle
    /\ form = AuthMounted

NextRot ==
    \/ \E fn \in GenerationFunctions : getAIClient(fn)
    \/ chooseKeyForTest

SpecRot == InitRot /\ [][NextRot]_vars

(***************************************************************************)
(* Claims about the rotation, checked under SpecRot.                       *)
(***************************************************************************)
IsGenerationCall(c) == c.fn \in GenerationFunctions

\* C1: with a pool of N >= 2 keys, the k-th resolver call (getAIClient through
\* any generation function; the test helper shares the cursor and counts as a
\* call) uses the key at position (k-1) mod N of the configured order, so any
\* N consecutive calls use N different keys, in cyclic configured order.
C1_RoundRobin ==
    LET N == Len(apiKeys) IN
    N >= 2 =>
        /\ \A k \in 1..Len(calls) :
              /\ calls[k].index = (k - 1) % N
              /\ calls[k].key = apiKeys[((k - 1) % N) + 1]
        /\ \A s \in 1..Len(calls) :
              s + N - 1 <= Len(calls) =>
                  /\ {calls[j].key : j \in s..(s + N - 1)} = {apiKeys[i] : i \in 1..N}
                  /\ \A j \in s..(s + N - 2) :
                        calls[j + 1].index = (calls[j].index + 1) % N

\* Three keys, five getAIClient calls: the fourth is back on the first key.
C1_Witness ==
    /\ Len(apiKeys) = 3
    /\ Len(calls) = 5
    /\ \A k \in 1..5 : IsGenerationCall(calls[k])
    /\ calls[3].key = apiKeys[3]
    /\ calls[4].key = apiKeys[1]
    /\ calls[5].key = apiKeys[2]

\* C2: whenever the pool is non-empty, 0 <= currentIndex < pool size, after
\* any number and any mix of getAIClient and _chooseKeyForTest calls.
C2_CursorInRange ==
    Len(apiKeys) > 0 => (0 <= currentIndex /\ currentIndex < Len(apiKeys))

\* The cursor has wrapped: three calls of both kinds on a pool of three.
C2_Witness ==
    /\ Len(apiKeys) = 3
    /\ Len(calls) >= 3
    /\ currentIndex = 0
    /\ \E k \in 1..Len(calls) : calls[k].fn = "_chooseKeyForTest"
    /\ \E k \in 1..Len(calls) : IsGenerationCall(calls[k])

\* C3: with an empty pool every generation call goes through the proxy adapter
\* and no direct client is built on any key; with a pool of exactly one key
\* every call uses that key and currentIndex stays 0.
C3_ProxyOrSingleKey ==
    /\ Len(apiKeys) = 0 =>
          \A k \in 1..Len(calls) :
              /\ calls[k].kind # "direct"
              /\ calls[k].key = Undefined
              /\ IsGenerationCall(calls[k]) => calls[k].kind = "proxy"
    /\ Len(apiKeys) = 1 =>
          /\ currentIndex = 0
          /\ \A k \in 1..Len(calls) :
                /\ calls[k].key = apiKeys[1]
                /\ calls[k].index = 0
                /\ IsGenerationCall(calls[k]) => calls[k].kind = "direct"

\* Empty pool: five generation calls, one per function, all through the proxy.
C3_Witness ==
    /\ Len(apiKeys) = 0
    /\ Len(calls) = 5
    /\ {calls[k].fn : k \in 1..5} = GenerationFunctions
    /\ \A k \in 1..5 : calls[k].kind = "proxy"

\* The other case of C3: one key, used by every one of several calls.
C3_SingleKeyReached ==
    /\ Len(apiKeys) = 1
    /\ Len(calls) = 5
    /\ \A k \in 1..5 : calls[k].key = apiKeys[1]

(***************************************************************************)
(* Claims about the auth handlers, checked under Spec.                     *)
(***************************************************************************)
\* The store the handlers of this run read and write.
Store == IF mongoReady THEN mongoUsers ELSE memoryUsers
KnownIn(users, email) == Find(users, email) # 0
RecOf(users, email) == users[Find(users, email)]
Known(email) == KnownIn(Store, email)
Rec(email) == RecOf(Store, email)

\* The step is the handling of one request of kind op (the clock stands still
\* while a request is handled; Tick leaves `last` alone).
RequestStep(op) == last'.op = op /\ now' = now

StoresUnchanged == mongoUsers' = mongoUsers /\ memoryUsers' = memoryUsers

\* What POST /api/verify-otp would answer for this OTP at time t.
VerifyStatusIn(mongo, memory, ready, email, otp, t) ==
    VerifyOtpHandler(mongo, memory, ready, email, otp, t).status
VerifyStatus(email, otp, t) ==
    VerifyStatusIn(mongoUsers, memoryUsers, mongoReady, email, otp, t)
\* The same question put to the state the step leads to.
VerifyStatusNext(email, otp, t) ==
    VerifyStatusIn(mongoUsers', memoryUsers', mongoReady', email, otp, t)

\* C4: for an UNVERIFIED record, VerifyOtp with the stored OTP no later than
\* otpExpiry answers 200 and sets isVerified; with another OTP, or later than
\* otpExpiry, it answers 400 and leaves the record (both stores) unchanged.
C4_VerifyOtp ==
    [][ (RequestStep("verify-otp") /\ Known(last'.email)
            /\ ~Rec(last'.email).isVerified)
        => IF last'.otp = Rec(last'.email).otp /\ now <= Rec(last'.email).otpExpiry
           THEN /\ last'.status = 200
                /\ RecOf(Store', last'.email).isVerified
                /\ RecOf(Store', last'.email).password = Rec(last'.email).password
           ELSE /\ last'.status = 400
                /\ StoresUnchanged ]_vars

\* The stored OTP presented exactly at its expiry time was accepted.
C4_Witness ==
    /\ last.op = "verify-otp"
    /\ last.status = 200
    /\ now = OTP_TTL_MS
    /\ Known(last.email)
    /\ Rec(last.email).isVerified
    /\ spentOtp[last.email] = last.otp

\* The other cases of C4: the stored OTP after its expiry, and a wrong OTP in
\* time, both answered 400 with the record still UNVERIFIED.
C4_ExpiredReached ==
    /\ last.op = "verify-otp" /\ last.status = 400
    /\ Known(last.email) /\ ~Rec(last.email).isVerified
    /\ last.otp = Rec(last.email).otp /\ now > Rec(last.email).otpExpiry

C4_WrongOtpReached ==
    /\ last.op = "verify-otp" /\ last.status = 400
    /\ Known(last.email) /\ ~Rec(last.email).isVerified
    /\ last.otp # Undefined /\ last.otp # Rec(last.email).otp
    /\ now <= Rec(last.email).otpExpiry

\* C5: a successful VerifyOtp or VerifyAndLogin leaves otp and otpExpiry
\* absent, and a later VerifyOtp or VerifyAndLogin presenting the OTP that was
\* accepted is answered 400 as long as no OTP was issued in between.
C5_OtpSingleUse ==
    [][ (RequestStep("verify-otp") \/ RequestStep("verify-and-login"))
        => /\ last'.status = 200 =>
                /\ KnownIn(Store', last'.email)
                /\ RecOf(Store', last'.email).otp = Undefined
                /\ RecOf(Store', last'.email).otpExpiry = NoDate
           /\ (last'.otp # Undefined /\ last'.otp = spentOtp[last'.email]) =>
                /\ last'.status = 400
                /\ StoresUnchanged ]_vars

\* The accepted OTP was presented again, with nothing issued since, and refused.
C5_Witness ==
    /\ last.op \in {"verify-otp", "verify-and-login"}
    /\ last.status = 400
    /\ last.otp # Undefined
    /\ last.password # Undefined \/ last.op = "verify-otp"
    /\ last.otp = spentOtp[last.email]
    /\ Rec(last.email).otp = Undefined

\* C6: Login on a record whose isVerified is false answers 403 with the same
\* body whether the password is right or wrong, and modifies nothing.
C6_LoginUnverified ==
    [][ (RequestStep("login") /\ Known(last'.email) /\ ~Rec(last'.email).isVerified)
        => /\ last'.status = 403
           /\ last'.message = "Please verify your email first"
           /\ last'.user = NoUser
           /\ StoresUnchanged ]_vars

\* The right password on an UNVERIFIED record: 403 all the same.
C6_Witness ==
    /\ last.op = "login"
    /\ last.status = 403
    /\ Known(last.email)
    /\ ~Rec(last.email).isVerified
    /\ last.password # Undefined
    /\ BcryptCompare(last.password, Rec(last.email).password)

\* The wrong password on an UNVERIFIED record.
C6_WrongPasswordReached ==
    /\ last.op = "login"
    /\ last.status = 403
    /\ ~Rec(last.email).isVerified
    /\ last.password # Undefined
    /\ ~BcryptCompare(last.password, Rec(last.email).password)

LoginLike == last.op \in {"login", "verify-and-login"}

\* A 200 of Login or VerifyAndLogin carries the user of a VERIFIED record whose
\* stored password the supplied one matches.
OkOnlyForVerifiedMatch ==
    (LoginLike /\ last.status = 200) =>
        /\ Known(last.email)
        /\ Rec(last.email).isVerified
        /\ last.password # Undefined
        /\ BcryptCompare(last.password, Rec(last.email).password)
        /\ last.user = UserOf(Rec(last.email))

\* The request passed the handler's check of required fields, and the record is
\* absent, or it is VERIFIED and the supplied password differs.
AbsentOrMismatch ==
    /\ last.path # "none"
    /\ \/ ~Known(last.email)
       \/ /\ Rec(last.email).isVerified
          /\ last.password # Undefined
          /\ ~BcryptCompare(last.password, Rec(last.email).password)

\* C7 as stated: Login or VerifyAndLogin answers 200 only for a VERIFIED record
\* and a matching password, and an absent record or a password mismatch on a
\* VERIFIED record gives 401.
C7_Original ==
    /\ OkOnlyForVerifiedMatch
    /\ (LoginLike /\ AbsentOrMismatch) => last.status = 401

\* C7 amended: the 200 clause for both; the 401 clause for Login; VerifyAndLogin
\* answers 400 for an absent record and 401 only once the OTP was accepted
\* (record VERIFIED, otp cleared) and the password does not match.
C7_Amended ==
    /\ OkOnlyForVerifiedMatch
    /\ (last.op = "login" /\ AbsentOrMismatch) => last.status = 401
    /\ (last.op = "verify-and-login" /\ ~Known(last.email)) => last.status = 400
    /\ (last.op = "verify-and-login" /\ last.status = 401) =>
            /\ Known(last.email)
            /\ Rec(last.email).isVerified
            /\ Rec(last.email).otp = Undefined
            /\ ~BcryptCompare(last.password, Rec(last.email).password)

\* Login answered 200 with the password a ResetPassword stored, not the one
\* of the signup.
C7_Witness ==
    /\ last.op = "login"
    /\ last.status = 200
    /\ last.user = UserOf(Rec(last.email))
    /\ last.password = "secret2"
    /\ Rec(last.email).name = "Ana"
    /\ now = 2 * TickMs

\* C8: a well-formed Signup with the email of a VERIFIED record answers 409,
\* leaves the record unchanged and adds no record.
C8_SignupVerified ==
    [][ (RequestStep("signup") /\ last'.path # "none"
            /\ Known(last'.email) /\ Rec(last'.email).isVerified)
        => /\ last'.status = 409
           /\ StoresUnchanged
           /\ Len(mongoUsers') = Len(mongoUsers)
           /\ Len(memoryUsers') = Len(memoryUsers) ]_vars

\* A duplicate signup was refused while a reset was pending on the record.
C8_Witness ==
    /\ last.op = "signup"
    /\ last.status = 409
    /\ Known(last.email)
    /\ Rec(last.email).isVerified
    /\ Rec(last.email).resetOtp # Undefined
    /\ Len(Store) = 1

\* The step stored a new signup OTP on a record that existed before it: a
\* Signup on an UNVERIFIED record, or a ResendOtp.
Reissue ==
    /\ Known(last'.email)
    /\ \/ RequestStep("signup") /\ last'.path # "none" /\ ~Rec(last'.email).isVerified
       \/ RequestStep("resend-otp")

\* After a reissue the record holds a generated OTP with a new 5-minute expiry
\* and a Signup has answered 200.
ReissueStores ==
    /\ last'.op = "signup" => last'.status = 200
    /\ RecOf(Store', last'.email).otp \in generateOTP
    /\ RecOf(Store', last'.email).otpExpiry = now + OTP_TTL_MS
    /\ Len(mongoUsers') = Len(mongoUsers)
    /\ Len(memoryUsers') = Len(memoryUsers)

\* At most one of the OTPs that can be generated is accepted for the record.
AtMostOneAccepted ==
    Cardinality({o \in generateOTP : VerifyStatus(last.email, o, now) = 200}) <= 1

\* C9 as stated: the reissue invalidates the OTP stored before it, so that a
\* VerifyOtp presenting it fails afterwards.
C9_Original ==
    [][ Reissue
        => /\ ReissueStores
           /\ AtMostOneAccepted'
           /\ Rec(last'.email).otp # Undefined =>
                VerifyStatusNext(last'.email, Rec(last'.email).otp, now) = 400 ]_vars

\* C9 amended: after the reissue a VerifyOtp is accepted exactly for the value
\* stored last, so the OTP stored before fails unless the newly generated OTP
\* has the same value, and at most one OTP is accepted.
C9_Amended ==
    [][ Reissue
        => /\ ReissueStores
           /\ AtMostOneAccepted'
           /\ \A o \in generateOTP :
                 VerifyStatusNext(last'.email, o, now) = 200
                     <=> o = RecOf(Store', last'.email).otp ]_vars

\* A Signup on an UNVERIFIED record replaced the OTP by a different one, after
\* the old one had expired.
C9_Witness ==
    /\ last.op = "signup"
    /\ last.status = 200
    /\ now = 2 * TickMs
    /\ Known(last.email)
    /\ ~Rec(last.email).isVerified
    /\ Rec(last.email).otpExpiry = now + OTP_TTL_MS
    /\ VerifyStatus(last.email, Rec(last.email).otp, now) = 200
    /\ \E o \in generateOTP : VerifyStatus(last.email, o, now) = 400

\* C10: ResetPassword answers 400 and changes nothing when the record is
\* absent, the OTP differs from resetOtp, no resetOtp is stored, or the time is
\* later than resetOtpExpiry.
C10_ResetRejected ==
    [][ (RequestStep("reset-password")
            /\ IF Known(last'.email)
               THEN \/ last'.otp # Rec(last'.email).resetOtp
                    \/ Rec(last'.email).resetOtp = Undefined
                    \/ Rec(last'.email).resetOtpExpiry = NoDate
                    \/ now > Rec(last'.email).resetOtpExpiry
               ELSE TRUE)
        => /\ last'.status = 400
           /\ StoresUnchanged ]_vars

\* The stored reset OTP, presented after its expiry with a new password, was
\* refused and the password kept.
C10_Witness ==
    /\ last.op = "reset-password"
    /\ last.status = 400
    /\ Known(last.email)
    /\ last.otp = Rec(last.email).resetOtp
    /\ now > Rec(last.email).resetOtpExpiry
    /\ last.password # Undefined
    /\ Rec(last.email).password # BcryptHash(last.password)

\* The other cases of C10: no record; a wrong OTP in time; no resetOtp stored.
C10_AbsentReached ==
    /\ last.op = "reset-password" /\ last.status = 400 /\ last.path # "none"
    /\ ~Known(last.email)

C10_WrongOtpReached ==
    /\ last.op = "reset-password" /\ last.status = 400 /\ last.path # "none"
    /\ Known(last.email)
    /\ Rec(last.email).resetOtp # Undefined
    /\ last.otp # Rec(last.email).resetOtp
    /\ now <= Rec(last.email).resetOtpExpiry

\* C11: a VerifyAndLogin with the stored OTP no later than its expiry and a
\* supplied password that does not match answers 401 and consumes the OTP all
\* the same: the record is VERIFIED with otp and otpExpiry absent, a repeated
\* VerifyAndLogin with the same OTP and the matching password answers 400, and
\* a Login with the matching password answers 200.
C11_OtpConsumedOnMismatch ==
    [][ (RequestStep("verify-and-login") /\ Known(last'.email)
            /\ last'.otp # Undefined /\ last'.otp = Rec(last'.email).otp
            /\ now <= Rec(last'.email).otpExpiry
            /\ last'.password # Undefined
            /\ ~BcryptCompare(last'.password, Rec(last'.email).password))
        => /\ last'.status = 401
           /\ RecOf(Store', last'.email).isVerified
           /\ RecOf(Store', last'.email).otp = Undefined
           /\ RecOf(Store', last'.email).otpExpiry = NoDate
           /\ RecOf(Store', last'.email).password = Rec(last'.email).password
           /\ \A p \in Passwords :
                 BcryptCompare(p, Rec(last'.email).password) =>
                    /\ VerifyAndLoginHandler(mongoUsers', memoryUsers', mongoReady',
                                             last'.email, last'.otp, p, now).status = 400
                    /\ LoginHandler(mongoUsers', memoryUsers', mongoReady',
                                    last'.email, p).status = 200 ]_vars

\* The stored OTP with a wrong password: 401, the OTP spent, the record VERIFIED.
C11_Witness ==
    /\ last.op = "verify-and-login"
    /\ last.status = 401
    /\ Known(last.email)
    /\ Rec(last.email).isVerified
    /\ Rec(last.email).otp = Undefined
    /\ spentOtp[last.email] = last.otp
    /\ ~BcryptCompare(last.password, Rec(last.email).password)

ResendMessages ==
    {"User created but failed to send OTP email. Please request resend.",
     "User exists but failed to send OTP email. Please request resend."}

\* C12: when sendEmail fails during a Signup (for a new email or for an
\* UNVERIFIED record, in either store) the answer is still 200 with a message
\* asking for a resend, and afterwards the record exists, UNVERIFIED, holding a
\* generated OTP that VerifyOtp accepts and a 5-minute expiry: no rollback.
C12_SignupMailFailure ==
    [][ (RequestStep("signup") /\ last'.mail = "failed")
        => /\ last'.status = 200
           /\ last'.message \in ResendMessages
           /\ KnownIn(Store', last'.email)
           /\ ~RecOf(Store', last'.email).isVerified
           /\ RecOf(Store', last'.email).otp \in generateOTP
           /\ RecOf(Store', last'.email).otpExpiry = now + OTP_TTL_MS
           /\ VerifyStatusNext(last'.email, RecOf(Store', last'.email).otp, now) = 200
           /\ IF Known(last'.email)
              THEN /\ Len(Store') = Len(Store)
                   /\ ~Rec(last'.email).isVerified
                   /\ RecOf(Store', last'.email).password = Rec(last'.email).password
              ELSE /\ Len(Store') = Len(Store) + 1
                   /\ RecOf(Store', last'.email).password = BcryptHash(last'.password) ]_vars

\* The mail of a Signup on an existing UNVERIFIED record failed; the record
\* holds the new OTP and expiry.
C12_Witness ==
    /\ last.op = "signup"
    /\ last.mail = "failed"
    /\ last.status = 200
    /\ last.message = "User exists but failed to send OTP email. Please request resend."
    /\ now = TickMs
    /\ Known(last.email)
    /\ ~Rec(last.email).isVerified
    /\ Rec(last.email).otpExpiry = now + OTP_TTL_MS

\* The other case of C12: the mail of the Signup that created the record failed.
C12_NewReached ==
    /\ last.op = "signup"
    /\ last.mail = "failed"
    /\ last.message = "User created but failed to send OTP email. Please request resend."
    /\ Known(last.email)
    /\ Rec(last.email).otp \in generateOTP

ResendMailFailed == last.op = "resend-otp" /\ last.mail = "failed"

\* C13 as stated: a delivery failure in ResendOtp is reported by the memory
\* path and swallowed (200) by the persisted path.
C13_Original ==
    ResendMailFailed =>
        IF last.path = "memory" THEN last.status # 200 ELSE last.status = 200

\* C13 amended: a delivery failure in ResendOtp is swallowed (200) by the
\* memory path and reported (500) by the persisted path.
C13_Amended ==
    ResendMailFailed =>
        IF last.path = "memory"
        THEN last.status = 200 /\ last.message = "OTP resent (memory)"
        ELSE last.status = 500 /\ last.message = "Resend OTP failed"

\* The persisted path reported the failure, with the new OTP already saved.
C13_Witness ==
    /\ ResendMailFailed
    /\ last.path = "mongo"
    /\ last.status = 500
    /\ Rec(last.email).otp \in generateOTP

\* The memory path swallowed the failure.
C13_MemoryReached ==
    /\ ResendMailFailed
    /\ last.path = "memory"
    /\ last.status = 200

\* C14 as stated: no ResetPassword succeeds for a record whose isVerified is
\* false.
C14_Original ==
    [][ (RequestStep("reset-password") /\ last'.status = 200)
        => Known(last'.email) /\ Rec(last'.email).isVerified ]_vars

\* C14 amended: a ResetPassword succeeds only on a record with a matching,
\* unexpired resetOtp, whatever isVerified is; it stores the new password,
\* clears the reset fields and leaves isVerified as it was.
C14_Amended ==
    [][ (RequestStep("reset-password") /\ last'.status = 200)
        => /\ Known(last'.email)
           /\ last'.otp = Rec(last'.email).resetOtp
           /\ now <= Rec(last'.email).resetOtpExpiry
           /\ RecOf(Store', last'.email).isVerified = Rec(last'.email).isVerified
           /\ RecOf(Store', last'.email).password = BcryptHash(last'.password)
           /\ RecOf(Store', last'.email).resetOtp = Undefined
           /\ RecOf(Store', last'.email).resetOtpExpiry = NoDate ]_vars

\* The password of a record that was never verified has been reset.
C14_Witness ==
    /\ last.op = "reset-password"
    /\ last.status = 200
    /\ Known(last.email)
    /\ ~Rec(last.email).isVerified
    /\ Rec(last.email).otp # Undefined
    /\ Rec(last.email).password = BcryptHash(last.password)

(***************************************************************************)
(* SpecBoth: the same requests, with the same draws of generateOTP and the *)
(* same outcomes of sendEmail, handled by a server whose database is       *)
(* connected and by one that has fallen back on memoryUsers. mongoUsers is *)
(* the store of the first, memoryUsers of the second; `last` keeps the     *)
(* response of the first and, under `memory`, that of the second.          *)
(***************************************************************************)
RespondBoth(op, email, otp, password, onMongo, onMemory) ==
    \E rm \in {onMongo}, rf \in {onMemory} :
        /\ mongoUsers' = rm.mongo
        /\ memoryUsers' = rf.memory
        /\ last' = [op |-> op, path |-> rm.path, email |-> email, otp |-> otp,
                    password |-> password, mail |-> rm.mail,
                    status |-> rm.status, message |-> rm.message, user |-> rm.user,
                    memory |-> [path |-> rf.path, mail |-> rf.mail, status |-> rf.status,
                                message |-> rf.message, user |-> rf.user]]
        /\ UNCHANGED <<mongoReady, now, spentOtp, pending, rotVars, aiVars, form>>

BothSignup ==
    \E name \in NameInputs, email \in EmailInputs, password \in PasswordInputs :
    \E otp \in DrawsOtp(~(Falsy(name) \/ Falsy(email) \/ Falsy(password))),
       mailOk \in DrawsMail(~(Falsy(name) \/ Falsy(email) \/ Falsy(password))) :
        RespondBoth("signup", email, Undefined, password,
                    SignupHandler(mongoUsers, memoryUsers, TRUE,
                                  name, email, password, otp, mailOk, now),
                    SignupHandler(mongoUsers, memoryUsers, FALSE,
                                  name, email, password, otp, mailOk, now))

BothLogin ==
    \E email \in EmailInputs, password \in PasswordInputs :
        RespondBoth("login", email, Undefined, password,
                    LoginHandler(mongoUsers, memoryUsers, TRUE, email, password),
                    LoginHandler(mongoUsers, memoryUsers, FALSE, email, password))

BothVerifyOtp ==
    \E email \in EmailInputs, otp \in OtpInputs :
        RespondBoth("verify-otp", email, otp, Undefined,
                    VerifyOtpHandler(mongoUsers, memoryUsers, TRUE, email, otp, now),
                    VerifyOtpHandler(mongoUsers, memoryUsers, FALSE, email, otp, now))

BothResendOtp ==
    \E email \in EmailInputs, otp \in generateOTP, mailOk \in BOOLEAN :
        RespondBoth("resend-otp", email, Undefined, Undefined,
                    ResendOtpHandler(mongoUsers, memoryUsers, TRUE, email, otp, mailOk, now),
                    ResendOtpHandler(mongoUsers, memoryUsers, FALSE, email, otp, mailOk, now))

BothVerifyAndLogin ==
    \E email \in EmailInputs, otp \in OtpInputs, password \in PasswordInputs :
        RespondBoth("verify-and-login", email, otp, password,
                    VerifyAndLoginHandler(mongoUsers, memoryUsers, TRUE,
                                          email, otp, password, now),
                    VerifyAndLoginHandler(mongoUsers, memoryUsers, FALSE,
                                          email, otp, password, now))

BothForgotPassword ==
    \E email \in EmailInputs, otp \in generateOTP, mailOk \in BOOLEAN :
        RespondBoth("forgot-password", email, Undefined, Undefined,
                    ForgotPasswordHandler(mongoUsers, memoryUsers, TRUE, TRUE,
                                          email, otp, mailOk, now),
                    ForgotPasswordHandler(mongoUsers, memoryUsers, FALSE, FALSE,
                                          email, otp, mailOk, now))

BothResetPassword ==
    \E email \in EmailInputs, otp \in OtpInputs, newPassword \in PasswordInputs :
        RespondBoth("reset-password", email, otp, newPassword,
                    ResetPasswordHandler(mongoUsers, memoryUsers, TRUE, TRUE,
                                         email, otp, newPassword, now),
                    ResetPasswordHandler(mongoUsers, memoryUsers, FALSE, FALSE,
                                         email, otp, newPassword, now))

InitBoth ==
    /\ mongoUsers = <<>>
    /\ memoryUsers = <<>>
    /\ mongoReady = TRUE
    /\ now = 0
    /\ last = NoRequest
    /\ spentOtp = [e \in Emails |-> Undefined]
    /\ pending = NoPending
    /\ RotIdle
    /\ AiIdle
    /\ form = AuthMounted

NextBoth ==
    \/ BothSignup
    \/ BothLogin
    \/ BothVerifyOtp
    \/ BothResendOtp
    \/ BothVerifyAndLogin
    \/ BothForgotPassword
    \/ BothResetPassword
    \/ Tick

SpecBoth == InitBoth /\ [][NextBoth]_vars

(***************************************************************************)
(* Claims about the two storage paths, checked under SpecBoth.             *)
(***************************************************************************)
\* The fields of a record that the two paths are compared on.
RecordFields(u) ==
    [email |-> u.email, isVerified |-> u.isVerified, otp |-> u.otp,
     otpExpiry |-> u.otpExpiry, resetOtp |-> u.resetOtp,
     resetOtpExpiry |-> u.resetOtpExpiry, password |-> u.password]

SameRecords ==
    /\ Len(mongoUsers) = Len(memoryUsers)
    /\ \A i \in 1..Len(mongoUsers) :
          RecordFields(mongoUsers[i]) = RecordFields(memoryUsers[i])

\* C15: for every sequence of requests issued one after another and every
\* email-delivery outcome, the persisted path and the in-memory path answer
\* each request with the same HTTP status and hold records with the same
\* isVerified, otp, otpExpiry, resetOtp, resetOtpExpiry and password.
C15_SamePaths ==
    /\ SameRecords
    /\ last.op # "none" => last.status = last.memory.status

\* Apart from a ResendOtp whose mail fails, the two paths agree.
C15_AgreeOtherwise ==
    /\ SameRecords
    /\ (last.op # "none" /\ ~(last.op = "resend-otp" /\ last.mail = "failed"))
          => last.status = last.memory.status

\* The two paths have answered a ResendOtp differently.
C15_Diverged ==
    /\ last.op = "resend-otp"
    /\ last.status = 500
    /\ last.memory.status = 200
    /\ SameRecords

(***************************************************************************)
(* SpecConc: requests in flight together. A handler runs without           *)
(* interruption from one await to the next, so other requests run only     *)
(* while it awaits.                                                        *)
(*                                                                         *)
(* Persisted path: `await User.findOne` hands the handler a document of    *)
(* its own; the assignments change that document only, and `await          *)
(* user.save()` writes them to the collection later, in one update. What   *)
(* save() writes are the paths the document tracks as modified: assigning  *)
(* to a path the value it already holds does not mark it.                  *)
(*                                                                         *)
(* In-memory path: find() returns the object of the list itself and no     *)
(* handler awaits between its find() and its assignments, except           *)
(* reset-password, which awaits bcrypt.hash between its check and its      *)
(* assignments.                                                            *)
(***************************************************************************)
\* The assignments that change the loaded document: what save() will write.
ModifiedPaths(doc, assigned) ==
    [f \in {g \in DOMAIN assigned : assigned[g] # doc[g]} |-> assigned[f]]

PatchSkipsUndefined(u, set) ==
    [f \in DOMAIN u |->
        IF f \in DOMAIN set
           /\ ~(f \in {"otp", "resetOtp"} /\ set[f] = Undefined)
           /\ ~(f \in {"otpExpiry", "resetOtpExpiry"} /\ set[f] = NoDate)
        THEN set[f] ELSE u[f]]

\* A record after the fields in `set` have been written to it.
Patch(u, set) == [f \in DOMAIN u |-> IF f \in DOMAIN set THEN set[f] ELSE u[f]]

\* The handler in `slot` has read its record and made its assignments; the
\* write to the store is still to come. A new request takes the first free slot.
Hold(slot, op, path, i, set) ==
    /\ pending[slot] = Idle
    /\ \A other \in RequestSlots : other < slot => pending[other] # Idle
    /\ pending' = [pending EXCEPT ![slot] = [op |-> op, path |-> path, idx |-> i,
                                             set |-> set]]
    /\ UNCHANGED <<mongoUsers, memoryUsers, mongoReady, now, last, spentOtp, rotVars,
                   aiVars, form>>

\* POST /api/signup, mongo branch, up to `await exists.save()` / `await user.save()`.
FindForSignup(slot) ==
    \E name \in {"Ana"}, email \in Emails, password \in Passwords, otp \in generateOTP :
        /\ mongoReady
        /\ LET i == Find(mongoUsers, email) IN
           IF i = 0
           THEN Hold(slot, "signup", "mongo", 0,
                     NewUser(name, email, BcryptHash(password), otp, now))
           ELSE /\ ~BlocksDuplicate(mongoUsers[i])
                /\ Hold(slot, "signup", "mongo", i,
                        ModifiedPaths(mongoUsers[i],
                                      [otp |-> otp, otpExpiry |-> now + OTP_TTL_MS]))

\* POST /api/verify-otp and /api/verify-and-login, mongo branch, up to
\* `await user.save()`.
FindForVerify(slot) ==
    \E op \in {"verify-otp", "verify-and-login"}, email \in Emails, otp \in generateOTP :
        /\ mongoReady
        /\ LET i == Find(mongoUsers, email) IN
           /\ i # 0
           /\ ~OtpRejected(mongoUsers[i], otp, now)
           /\ Hold(slot, op, "mongo", i,
                   ModifiedPaths(mongoUsers[i],
                                 [isVerified |-> TRUE, otp |-> Undefined,
                                  otpExpiry |-> NoDate]))

\* POST /api/resend-otp, mongo branch, up to `await user.save()`.
FindForResend(slot) ==
    \E email \in Emails, otp \in generateOTP :
        /\ mongoReady
        /\ LET i == Find(mongoUsers, email) IN
           /\ i # 0
           /\ Hold(slot, "resend-otp", "mongo", i,
                   ModifiedPaths(mongoUsers[i],
                                 [otp |-> otp, otpExpiry |-> now + OTP_TTL_MS]))

\* POST /api/forgot-password, mongo branch, up to `await user.save()`.
FindForForgot(slot) ==
    \E email \in Emails, otp \in generateOTP :
        /\ mongoReady
        /\ LET i == Find(mongoUsers, email) IN
           /\ i # 0
           /\ Hold(slot, "forgot-password", "mongo", i,
                   ModifiedPaths(mongoUsers[i],
                                 [resetOtp |-> otp, resetOtpExpiry |-> now + OTP_TTL_MS]))

\* POST /api/reset-password up to `await bcrypt.hash`: the record is read and
\* the reset OTP checked. After the await come the assignments, on the loaded
\* document (then saved) or on the object of memoryUsers.
CheckForReset(slot) ==
    \E email \in Emails, otp \in generateOTP, newPassword \in Passwords :
        LET users == IF mongoReady THEN mongoUsers ELSE memoryUsers
            i     == Find(users, email)
            assigned == [password |-> BcryptHash(newPassword), resetOtp |-> Undefined,
                         resetOtpExpiry |-> NoDate]
        IN  /\ i # 0
            /\ ~ResetRejected(users[i], otp, now)
            /\ IF mongoReady
               THEN Hold(slot, "reset-password", "mongo", i,
                         ModifiedPaths(users[i], assigned))
               ELSE Hold(slot, "reset-password", "memory", i, assigned)

\* `await user.save()` completes: an insert for a new document (refused by the
\* unique index on email when a document with the email exists by now), else
\* one update of the modified paths. In memory, the assignments themselves.
Save(slot) ==
    /\ pending[slot] # Idle
    /\ LET h == pending[slot] IN
       IF h.path = "memory"
       THEN /\ memoryUsers' = [memoryUsers EXCEPT ![h.idx] = Patch(@, h.set)]
            /\ UNCHANGED mongoUsers
       ELSE /\ mongoUsers' =
                  IF h.idx = 0
                  THEN IF Find(mongoUsers, h.set.email) = 0
                       THEN Append(mongoUsers, h.set)
                       ELSE mongoUsers
                  ELSE [mongoUsers EXCEPT ![h.idx] = Patch(@, h.set)]
            /\ UNCHANGED memoryUsers
    /\ pending' = [pending EXCEPT ![slot] = Idle]
    /\ UNCHANGED <<mongoReady, now, last, spentOtp, rotVars, aiVars, form>>

\* An in-memory handler that runs from find() through its assignments without
\* an await: memoryUsers takes what the handler leaves.
MemoryStep(result) ==
    /\ ~mongoReady
    /\ memoryUsers' = result.memory
    /\ UNCHANGED <<mongoUsers, mongoReady, now, last, spentOtp, pending, rotVars, aiVars, form>>

MemorySignup ==
    \E name \in {"Ana"}, email \in Emails, password \in Passwords, otp \in generateOTP :
        MemoryStep(SignupHandler(mongoUsers, memoryUsers, FALSE,
                                 name, email, password, otp, TRUE, now))

MemoryVerify ==
    \E email \in Emails, otp \in generateOTP, password \in Passwords :
        \/ MemoryStep(VerifyOtpHandler(mongoUsers, memoryUsers, FALSE, email, otp, now))
        \/ MemoryStep(VerifyAndLoginHandler(mongoUsers, memoryUsers, FALSE,
                                            email, otp, password, now))

MemoryResend ==
    \E email \in Emails, otp \in generateOTP :
        MemoryStep(ResendOtpHandler(mongoUsers, memoryUsers, FALSE, email, otp, TRUE, now))

MemoryForgot ==
    \E email \in Emails, otp \in generateOTP :
        MemoryStep(ForgotPasswordHandler(mongoUsers, memoryUsers, FALSE, FALSE,
                                         email, otp, TRUE, now))

NextConc ==
    \/ \E slot \in RequestSlots :
          \/ FindForSignup(slot)
          \/ FindForVerify(slot)
          \/ FindForResend(slot)
          \/ FindForForgot(slot)
          \/ CheckForReset(slot)
          \/ Save(slot)
    \/ MemorySignup
    \/ MemoryVerify
    \/ MemoryResend
    \/ MemoryForgot
    \/ Tick

SpecConc == Init /\ [][NextConc]_vars

(***************************************************************************)
(* Claims about requests in flight together, checked under SpecConc.       *)
(***************************************************************************)
PairsTogether(u) ==
    /\ u.otp # Undefined <=> u.otpExpiry # NoDate
    /\ u.resetOtp # Undefined <=> u.resetOtpExpiry # NoDate

\* C16: in every state a request can observe (the documents of the collection,
\* the objects of memoryUsers), under any interleaving of requests, otp is
\* present iff otpExpiry is, and resetOtp is present iff resetOtpExpiry is.
C16_NoPartialUpdate ==
    /\ \A i \in 1..Len(mongoUsers) : PairsTogether(mongoUsers[i])
    /\ \A i \in 1..Len(memoryUsers) : PairsTogether(memoryUsers[i])

\* The objects of memoryUsers never show half of a pair.
C16_MemoryTogether ==
    \A i \in 1..Len(memoryUsers) : PairsTogether(memoryUsers[i])

\* A document of the collection holds an otpExpiry and no otp.
C16_ExpiryWithoutOtp ==
    \E i \in 1..Len(mongoUsers) :
        mongoUsers[i].otp = Undefined /\ mongoUsers[i].otpExpiry # NoDate

\* With requests handled one after another no record shows half of a pair.
C16_Sequential ==
    /\ \A i \in 1..Len(mongoUsers) : PairsTogether(mongoUsers[i])
    /\ \A i \in 1..Len(memoryUsers) : PairsTogether(memoryUsers[i])

(***************************************************************************)
(* SpecAi: the AI proxy of server.js and the generation functions of       *)
(* geminiService that reach the provider through it or through the SDK.    *)
(*                                                                         *)
(* A text is a record: `syntax` tells whether it is absent (undefined),    *)
(* the empty string, a string that is not JSON, or JSON; `raw` is the      *)
(* string when it is not JSON and `value` what JSON.parse gives when it is.*)
(***************************************************************************)
\* Most flashcards in a provider answer of the model.
MaxCards == 2

\* process.env.GEMINI_API_KEY: unset, empty, or a key.
ServerKeyValues == {Undefined, "", "srv-key-1", "srv-key-2"}

\* JSON values by what generateFlashcards reads of them: the type of the
\* value, whether it has a `flashcards` member, whether that is an array, and
\* its items.
JsonValue(type, has, isArray, items) ==
    [type |-> type, has |-> has, isArray |-> isArray, items |-> items]
JsonNull == JsonValue("null", FALSE, FALSE, <<>>)

NoText == [syntax |-> "absent", raw |-> Undefined, value |-> JsonNull]
EmptyText == [syntax |-> "empty", raw |-> "", value |-> JsonNull]
PlainText(str) == [syntax |-> "plain", raw |-> str, value |-> JsonNull]
\* JSON.stringify(v)
JsonText(v) == [syntax |-> "json", raw |-> "<json>", value |-> v]

\* !!text: a string that is present and not empty.
HasText(text) == text.syntax \notin {"absent", "empty"}

\* Items of a flashcards array: objects with question and answer (answer may
\* be missing), or null.
CardItems ==
    {[isNull |-> FALSE, question |-> "q1", answer |-> "a1"],
     [isNull |-> FALSE, question |-> "q2", answer |-> Undefined],
     [isNull |-> TRUE, question |-> Undefined, answer |-> Undefined]}

CardLists == UNION {[1..n -> CardItems] : n \in 0..MaxCards}

\* What the provider may answer with.
ProviderTexts ==
    {NoText, EmptyText, PlainText("You are improving, keep going!"),
     JsonText(JsonNull),
     JsonText(JsonValue("array", FALSE, FALSE, <<>>)),
     JsonText(JsonValue("object", FALSE, FALSE, <<>>)),
     JsonText(JsonValue("object", TRUE, FALSE, <<>>))}
    \cup {JsonText(JsonValue("object", TRUE, TRUE, items)) : items \in CardLists}

\* What happens to a request for content: the provider answers, the provider
\* (or the SDK call) fails, or the browser's fetch to the proxy fails.
ProviderScenarios ==
    {[kind |-> "text", text |-> t] : t \in ProviderTexts}
    \cup {[kind |-> "reject", text |-> NoText]}
NetworkFailure == [kind |-> "network", text |-> NoText]

\* The error of a failed provider call; it names the key the call was made with.
ProviderError(key) == <<"API key not valid", key>>

NoHttp == [status |-> 0, message |-> <<>>, text |-> NoText, providerCalls |-> 0]

AiGenerateHandlerLeaksError(key, scenario) ==
    IF Falsy(key)
    THEN [status |-> 400, message |-> <<"Gemini key missing">>, text |-> NoText,
          providerCalls |-> 0]
    ELSE IF scenario.kind = "text"
    THEN [status |-> 200, message |-> <<>>, text |-> scenario.text, providerCalls |-> 1]
    ELSE [status |-> 500, message |-> ProviderError(key), text |-> NoText,
          providerCalls |-> 1]

\* POST /api/ai/generate: the response, and how often the provider was called.
AiGenerateHandler(key, scenario) ==
    IF Falsy(key)
    THEN [status |-> 400, message |-> <<"Gemini key missing">>, text |-> NoText,
          providerCalls |-> 0]
    ELSE IF scenario.kind = "text"
    THEN [status |-> 200, message |-> <<>>, text |-> scenario.text, providerCalls |-> 1]
    ELSE [status |-> 500, message |-> <<"AI error">>, text |-> NoText,
          providerCalls |-> 1]

\* What `await ai.models.generateContent(...)` does: resolves with a response
\* or rejects with an error.
Resolved(text) == [threw |-> FALSE, text |-> text, error |-> <<>>]
Rejected(error) == [threw |-> TRUE, text |-> NoText, error |-> error]

\* generateContent of the fetch adapter that getAIClient returns under the proxy.
AdapterGenerateContent(scenario, http) ==
    IF scenario.kind = "network" THEN Rejected(<<"Failed to fetch">>)
    ELSE IF http.status # 200
    THEN Rejected(IF http.message = <<>> THEN <<"Server AI proxy failed">>
                  ELSE http.message)
    ELSE Resolved(http.text)

\* generateContent of a GoogleGenAI client built on a key of the pool.
SdkGenerateContent(key, scenario) ==
    IF scenario.kind = "text" THEN Resolved(scenario.text)
    ELSE Rejected(ProviderError(key))

Returned(text) == [kind |-> "returned", text |-> text, cards |-> <<>>, error |-> <<>>]
ReturnedCards(cards) ==
    [kind |-> "returned", text |-> NoText, cards |-> cards, error |-> <<>>]
Threw(error) == [kind |-> "threw", text |-> NoText, cards |-> <<>>, error |-> error]
NoOutcome == [kind |-> "none", text |-> NoText, cards |-> <<>>, error |-> <<>>]

NoNotes == PlainText("No notes generated.")

generateStudyNotesThrowsOnEmpty(resp) ==
    IF resp.threw THEN Threw(resp.error)
    ELSE IF HasText(resp.text) THEN Returned(resp.text)
    ELSE Threw(<<"Empty response from AI">>)

\* generateStudyNotes, from the await on: response.text || "No notes generated."
generateStudyNotesResult(resp) ==
    IF resp.threw THEN Threw(resp.error)
    ELSE IF HasText(resp.text) THEN Returned(resp.text)
    ELSE Returned(NoNotes)

\* cards.map((item, index) => ({ id: currentCount + index + 1, ... })), index
\* counted from 0.
CardsOf(items, currentCount) ==
    [i \in 1..Len(items) |->
        [id |-> currentCount + (i - 1) + 1, question |-> items[i].question,
         answer |-> items[i].answer, isLearned |-> FALSE]]

generateFlashcardsIdsFromCount(resp, currentCount) ==
    IF resp.threw THEN Threw(resp.error)
    ELSE IF ~HasText(resp.text) THEN Threw(<<"Empty response from AI">>)
    ELSE IF resp.text.syntax # "json" THEN Threw(<<"SyntaxError">>)
    ELSE IF resp.text.value.type = "null" THEN Threw(<<"TypeError">>)
    ELSE IF ~(resp.text.value.has /\ resp.text.value.isArray)
    THEN Threw(<<"Invalid JSON format">>)
    ELSE IF \E i \in 1..Len(resp.text.value.items) : resp.text.value.items[i].isNull
    THEN Threw(<<"TypeError">>)
    ELSE ReturnedCards([i \in 1..Len(resp.text.value.items) |->
                           [id |-> currentCount + (i - 1),
                            question |-> resp.text.value.items[i].question,
                            answer |-> resp.text.value.items[i].answer,
                            isLearned |-> FALSE]])

\* generateFlashcards, from the await on. JSON.parse throws a SyntaxError on
\* text that is not JSON; reading a property of null throws a TypeError, for
\* the parsed value and for an item alike.
generateFlashcardsResult(resp, currentCount) ==
    IF resp.threw THEN Threw(resp.error)
    ELSE IF ~HasText(resp.text) THEN Threw(<<"Empty response from AI">>)
    ELSE IF resp.text.syntax # "json" THEN Threw(<<"SyntaxError">>)
    ELSE IF resp.text.value.type = "null" THEN Threw(<<"TypeError">>)
    ELSE IF ~(resp.text.value.has /\ resp.text.value.isArray)
    THEN Threw(<<"Invalid JSON format">>)
    ELSE IF \E i \in 1..Len(resp.text.value.items) : resp.text.value.items[i].isNull
    THEN Threw(<<"TypeError">>)
    ELSE ReturnedCards(CardsOf(resp.text.value.items, currentCount))

DefaultMessage == PlainText("Keep learning, you're doing great!")

getMotivationalMessageRethrows(resp) ==
    IF resp.threw THEN Threw(resp.error)
    ELSE IF HasText(resp.text) THEN Returned(resp.text)
    ELSE Returned(DefaultMessage)

\* getMotivationalMessage, from the await on: the catch returns the default.
getMotivationalMessageResult(resp) ==
    IF resp.threw THEN Returned(DefaultMessage)
    ELSE IF HasText(resp.text) THEN Returned(resp.text)
    ELSE Returned(DefaultMessage)

\* Values of currentCount in a call of generateFlashcards.
CurrentCounts == {0, 7}

\* A request sent straight to POST /api/ai/generate.
AiGenerate ==
    \E scenario \in ProviderScenarios :
        /\ ai' = [fn |-> "POST /api/ai/generate", via |-> "http", key |-> Undefined,
                  scenario |-> scenario, currentCount |-> 0,
                  http |-> AiGenerateHandler(serverKey, scenario),
                  resp |-> Resolved(NoText), outcome |-> NoOutcome]
        /\ UNCHANGED <<serverKey, rotVars, authVars, form>>

\* The scenarios a call can meet: a fetch failure only under the proxy.
ScenariosOf(kind) ==
    IF kind = "proxy" THEN ProviderScenarios \cup {NetworkFailure} ELSE ProviderScenarios

\* One generation function run to its end: getAIClient, generateContent on what
\* it returned, and what the function makes of the response.
Generate(fn, currentCount, scenario) ==
    LET t    == Transport(KeyAt(currentIndex))
        http == IF t.kind = "proxy" /\ scenario.kind # "network"
                THEN AiGenerateHandler(serverKey, scenario) ELSE NoHttp
        resp == IF t.kind = "proxy" THEN AdapterGenerateContent(scenario, http)
                ELSE SdkGenerateContent(t.key, scenario)
    IN  /\ scenario \in ScenariosOf(t.kind)
        /\ ai' = [fn |-> fn, via |-> t.kind, key |-> t.key, scenario |-> scenario,
                  currentCount |-> currentCount, http |-> http, resp |-> resp,
                  outcome |->
                      IF fn = "generateStudyNotes" THEN generateStudyNotesResult(resp)
                      ELSE IF fn = "generateFlashcards"
                      THEN generateFlashcardsResult(resp, currentCount)
                      ELSE getMotivationalMessageResult(resp)]
        /\ currentIndex' = IF useServerProxy THEN currentIndex ELSE NextIndex(currentIndex)
        /\ UNCHANGED <<apiKeys, calls, serverKey, authVars, form>>

generateStudyNotes ==
    \E scenario \in ProviderScenarios \cup {NetworkFailure} :
        Generate("generateStudyNotes", 0, scenario)

generateFlashcards ==
    \E scenario \in ProviderScenarios \cup {NetworkFailure}, currentCount \in CurrentCounts :
        Generate("generateFlashcards", currentCount, scenario)

getMotivationalMessage ==
    \E scenario \in ProviderScenarios \cup {NetworkFailure} :
        Generate("getMotivationalMessage", 0, scenario)

InitAi ==
    /\ \E cands \in [1..NumSlots -> CandidateValues] : apiKeys = BuildApiKeys(cands)
    /\ currentIndex = 0
    /\ calls = <<>>
    /\ AuthIdle
    /\ serverKey \in ServerKeyValues
    /\ ai = NoAiCall
    /\ form = AuthMounted

NextAi ==
    \/ AiGenerate
    \/ generateStudyNotes
    \/ generateFlashcards
    \/ getMotivationalMessage

SpecAi == InitAi /\ [][NextAi]_vars

(***************************************************************************)
(* Claims about the AI proxy and the generation functions (SpecAi).        *)
(***************************************************************************)
\* The response of the proxy as the caller sees it.
ResponseBody(http) == [status |-> http.status, message |-> http.message, text |-> http.text]

\* The proxy answered a request (sent straight to it or by the fetch adapter).
ProxyAnswered == ai # NoAiCall /\ ai.http # NoHttp

\* C17: the response of the AI proxy depends only on whether a server key is
\* configured and on what the provider does: without a key it is 400 'Gemini
\* key missing' and the provider is not called, with a key it is 200 with the
\* provider's text or 500 'AI error'; no part of the response is the key, and
\* the same request under any other configured key gets the identical response.
C17_KeyNeverInResponse ==
    ProxyAnswered =>
        /\ Falsy(serverKey) =>
              /\ ResponseBody(ai.http) =
                     [status |-> 400, message |-> <<"Gemini key missing">>, text |-> NoText]
              /\ ai.http.providerCalls = 0
        /\ ~Falsy(serverKey) =>
              /\ ai.http.providerCalls = 1
              /\ ResponseBody(ai.http) =
                     IF ai.scenario.kind = "text"
                     THEN [status |-> 200, message |-> <<>>, text |-> ai.scenario.text]
                     ELSE [status |-> 500, message |-> <<"AI error">>, text |-> NoText]
              /\ \A k \in ServerKeyValues :
                     ~Falsy(k) => AiGenerateHandler(k, ai.scenario) = ai.http
              /\ \A i \in 1..Len(ai.http.message) : ai.http.message[i] # serverKey
              /\ ai.http.text.raw # serverKey

\* A configured key, a provider failure whose error names the key, and the
\* proxy's answer to it.
C17_Witness ==
    /\ ProxyAnswered
    /\ serverKey = "srv-key-2"
    /\ ai.scenario.kind = "reject"
    /\ ai.http.status = 500

\* The provider answered the request of the last call and its answer holds no
\* text (none at all, or the empty string), and the answer reached the function.
ProviderGaveNoText ==
    /\ ai.scenario.kind = "text"
    /\ ~HasText(ai.scenario.text)
    /\ ~ai.resp.threw

\* C18 as stated: generateStudyNotes throws to the caller whenever the provider
\* returns no text, and never returns a value in that case.
C18_Original ==
    (ai.fn = "generateStudyNotes" /\ ProviderGaveNoText) => ai.outcome.kind = "threw"

\* C18, amended: when the provider returns no text generateStudyNotes returns
\* the fixed string "No notes generated." and does not throw; it throws exactly
\* when the call to the provider fails, and then with that call's error.
C18_Amended ==
    ai.fn = "generateStudyNotes" =>
        /\ ProviderGaveNoText => ai.outcome = Returned(NoNotes)
        /\ ai.outcome.kind = "threw" <=> ai.resp.threw
        /\ ai.resp.threw => ai.outcome.error = ai.resp.error

\* The provider answered without text and generateStudyNotes returned the
\* fixed string.
C18_Witness ==
    /\ ai.fn = "generateStudyNotes"
    /\ ProviderGaveNoText
    /\ ai.scenario.text = NoText
    /\ ai.outcome = Returned(NoNotes)

\* The text the function received parses to an object whose flashcards member
\* is an array.
FlashcardsArray ==
    /\ ~ai.resp.threw
    /\ ai.resp.text.syntax = "json"
    /\ ai.resp.text.value.type = "object"
    /\ ai.resp.text.value.has
    /\ ai.resp.text.value.isArray

\* The text the function received is empty, is not JSON, or parses to a value
\* without a flashcards array.
FlashcardsMalformed == ~ai.resp.threw /\ ~FlashcardsArray

\* n cards, in the order of the items, with ids currentCount+1 .. currentCount+n
\* and isLearned false.
CardsFor(items) ==
    /\ ai.outcome.kind = "returned"
    /\ Len(ai.outcome.cards) = Len(items)
    /\ \A i \in 1..Len(items) :
           /\ ai.outcome.cards[i].id = ai.currentCount + i
           /\ ai.outcome.cards[i].question = items[i].question
           /\ ai.outcome.cards[i].answer = items[i].answer
           /\ ai.outcome.cards[i].isLearned = FALSE

ThrewNoCards == ai.outcome.kind = "threw" /\ ai.outcome.cards = <<>>

\* C19 as stated: for a flashcards array of n items generateFlashcards returns
\* n cards in order with ids currentCount+1 .. currentCount+n and isLearned
\* false; for empty text, non-JSON text or a missing or non-array flashcards
\* field it throws and returns no cards.
C19_Original ==
    ai.fn = "generateFlashcards" =>
        /\ FlashcardsArray => CardsFor(ai.resp.text.value.items)
        /\ FlashcardsMalformed => ThrewNoCards

HasNullItem(items) == \E i \in 1..Len(items) : items[i].isNull

\* C19, amended: the n cards are returned for a flashcards array of n items
\* none of which is null; an array holding a null item makes generateFlashcards
\* throw, as empty text, non-JSON text and a missing or non-array flashcards
\* field do.
C19_Amended ==
    ai.fn = "generateFlashcards" =>
        /\ (FlashcardsArray /\ ~HasNullItem(ai.resp.text.value.items))
               => CardsFor(ai.resp.text.value.items)
        /\ (FlashcardsArray /\ HasNullItem(ai.resp.text.value.items)) => ThrewNoCards
        /\ FlashcardsMalformed => ThrewNoCards

\* Two items after seven existing cards: cards 8 and 9.
C19_Witness ==
    /\ ai.fn = "generateFlashcards"
    /\ FlashcardsArray
    /\ Len(ai.resp.text.value.items) = 2
    /\ ai.currentCount = 7
    /\ ai.outcome.kind = "returned"
    /\ ai.outcome.cards[1].id = 8
    /\ ai.outcome.cards[2].id = 9

\* An array with a null item made the function throw.
C19_NullItemReached ==
    /\ ai.fn = "generateFlashcards"
    /\ FlashcardsArray
    /\ HasNullItem(ai.resp.text.value.items)
    /\ ai.outcome.kind = "threw"

\* C20: getMotivationalMessage never propagates an error: whatever the provider
\* does and whatever the size of the pool, it returns a string, which is the
\* provider's text when there is one and the fixed default when the provider
\* gave no text or the call failed.
C20_NeverThrows ==
    ai.fn = "getMotivationalMessage" =>
        /\ ai.outcome.kind = "returned"
        /\ HasText(ai.outcome.text)
        /\ (ai.resp.threw \/ ~HasText(ai.resp.text)) => ai.outcome.text = DefaultMessage
        /\ (~ai.resp.threw /\ HasText(ai.resp.text)) => ai.outcome.text = ai.resp.text

\* The proxy answered 500 and the caller got the default message.
C20_Witness ==
    /\ ai.fn = "getMotivationalMessage"
    /\ ai.via = "proxy"
    /\ ai.http.status = 500
    /\ ai.resp.threw
    /\ ai.outcome = Returned(DefaultMessage)

\* A client on a key of a pool of three met a rejection, and the caller got the
\* default message.
C20_DirectReached ==
    /\ ai.fn = "getMotivationalMessage"
    /\ ai.via = "direct"
    /\ Len(apiKeys) = 3
    /\ ai.scenario.kind = "reject"
    /\ ai.outcome = Returned(DefaultMessage)

(***************************************************************************)
(* Claims about the fields a handler leaves alone, checked under Spec.     *)
(***************************************************************************)
SignupState(u) == <<u.isVerified, u.otp, u.otpExpiry>>
ResetState(u) == <<u.resetOtp, u.resetOtpExpiry>>

\* Every record the two stores held before the step has kept the signup state.
SignupStateKept ==
    /\ \A i \in 1..Len(mongoUsers) : SignupState(mongoUsers'[i]) = SignupState(mongoUsers[i])
    /\ \A i \in 1..Len(memoryUsers) :
           SignupState(memoryUsers'[i]) = SignupState(memoryUsers[i])

\* Every record the two stores held before the step has kept the reset state.
ResetStateKept ==
    /\ \A i \in 1..Len(mongoUsers) : ResetState(mongoUsers'[i]) = ResetState(mongoUsers[i])
    /\ \A i \in 1..Len(memoryUsers) :
           ResetState(memoryUsers'[i]) = ResetState(memoryUsers[i])

\* C21: ForgotPassword and ResetPassword, whether they succeed or fail, leave
\* isVerified, otp and otpExpiry of every record unchanged; Signup on an
\* existing record, VerifyOtp, ResendOtp, VerifyAndLogin and Login leave
\* resetOtp and resetOtpExpiry of every record unchanged.
C21_Orthogonal ==
    [][ /\ (RequestStep("forgot-password") \/ RequestStep("reset-password"))
               => SignupStateKept
        /\ (\/ RequestStep("signup") \/ RequestStep("verify-otp")
            \/ RequestStep("resend-otp") \/ RequestStep("verify-and-login")
            \/ RequestStep("login"))
               => ResetStateKept ]_vars

\* A reset OTP has been issued for a record that is still UNVERIFIED with its
\* signup OTP in place.
C21_Witness ==
    /\ last.op = "forgot-password"
    /\ last.status = 200
    /\ Known(last.email)
    /\ ~Rec(last.email).isVerified
    /\ Rec(last.email).otp # Undefined
    /\ Rec(last.email).resetOtp # Undefined

\* The other direction: a record was verified while a reset OTP was pending,
\* and the reset OTP is still there.
C21_VerifiedReached ==
    /\ last.op \in {"verify-otp", "verify-and-login"}
    /\ last.status = 200
    /\ Known(last.email)
    /\ Rec(last.email).isVerified
    /\ Rec(last.email).resetOtp # Undefined

(***************************************************************************)
(* SpecRace: requests in flight together, with their responses. As in      *)
(* SpecConc a handler runs without interruption from one await to the      *)
(* next. A request in flight is at one of these awaits:                    *)
(*   "hash"     signup awaits bcrypt.hash; nothing has been read yet;      *)
(*   "save"     the record has been read and checked and the write is      *)
(*              still to come: `await user.save()` on the persisted path,  *)
(*              and, for reset-password on either path, `await             *)
(*              bcrypt.hash` followed by the assignments;                  *)
(*   "compare"  verify-and-login of the in-memory path awaits              *)
(*              bcrypt.compare, the OTP already cleared.                   *)
(* `spentOtp` keeps, per email, the signup OTP and the reset OTP that have *)
(* passed a handler's check since an OTP of that kind was last stored.     *)
(* `again` marks a request whose OTP had passed a check before, `raced`    *)
(* a verify request whose check ran while another request that presented   *)
(* the same OTP was in flight past its own check.                          *)
(***************************************************************************)
NoSet == [f \in {} |-> Undefined]

Request(op, path, phase, email, otp, password) ==
    [op |-> op, path |-> path, phase |-> phase, email |-> email, otp |-> otp,
     password |-> password, idx |-> 0, set |-> NoSet, status |-> 0, message |-> "",
     fresh |-> FALSE, again |-> FALSE, raced |-> FALSE]


StorePath == IF mongoReady THEN "mongo" ELSE "memory"

\* A new request takes the first free slot.
FirstFree(slot) ==
    /\ pending[slot] = Idle
    /\ \A other \in RequestSlots : other < slot => pending[other] # Idle

\* Another request in flight presented the same OTP for the same email and has
\* passed the check; its write, or its response, is still to come.
Racing(slot, ops, email, otp) ==
    \E other \in RequestSlots \ {slot} :
        /\ pending[other] # Idle
        /\ pending[other].op \in ops
        /\ pending[other].phase \in {"save", "compare"}
        /\ pending[other].email = email
        /\ pending[other].otp = otp

\* The request in `slot` stays in flight as `req`.
Await(slot, req) ==
    /\ pending' = [pending EXCEPT ![slot] = req]
    /\ last' = last

\* The requests in flight once the one in `slot` is gone: those that remain
\* move up to the first slots, in their order.
RECURSIVE MoveUp(_, _)
MoveUp(p, slot) ==
    IF slot + 1 \in RequestSlots
    THEN MoveUp([p EXCEPT ![slot] = p[slot + 1], ![slot + 1] = Idle], slot + 1)
    ELSE p

\* The request `req` of `slot` is answered; `last` keeps what kind of request
\* it was and the response.
Answer(slot, req, status, message) ==
    /\ pending' = MoveUp([pending EXCEPT ![slot] = Idle], slot)
    /\ last' = [req EXCEPT !.phase = "done", !.status = status, !.message = message,
                           !.email = Undefined, !.otp = Undefined,
                           !.password = Undefined, !.idx = 0, !.set = NoSet]


\* POST /api/signup up to `await bcrypt.hash(password, 10)`.
ReceiveSignup(slot) ==
    \E email \in Emails :
        /\ FirstFree(slot)
        /\ Await(slot, [Request("signup", StorePath, "hash", email, Undefined, "secret1")
                           EXCEPT !.fresh = ~Known(email)])
        /\ UNCHANGED <<mongoUsers, memoryUsers, spentOtp>>
        /\ UNCHANGED <<mongoReady, now, rotVars, aiVars, form>>

\* POST /api/signup from the hash on. In memory: find, push or assign, mail,
\* response. Persisted: findOne and the assignments, up to `await save()`.
ProceedSignup(slot) ==
    \E otp \in generateOTP :
        LET req == pending[slot]
            r   == SignupHandler(mongoUsers, memoryUsers, mongoReady, "Ana", req.email,
                                 req.password, otp, TRUE, now)
            i   == Find(mongoUsers, req.email)
        IN  /\ req # Idle
            /\ req.op = "signup"
            /\ req.phase = "hash"
            /\ IF ~mongoReady
               THEN /\ memoryUsers' = r.memory
                    /\ spentOtp' = IF r.status = 200
                                   THEN [spentOtp EXCEPT ![req.email].signup = Undefined]
                                   ELSE spentOtp
                    /\ Answer(slot, req, r.status, r.message)
               ELSE /\ memoryUsers' = memoryUsers
                    /\ spentOtp' = spentOtp
                    /\ IF r.status # 200
                       THEN Answer(slot, req, r.status, r.message)
                       ELSE Await(slot, [req EXCEPT
                                !.phase = "save", !.idx = i,
                                !.status = r.status, !.message = r.message,
                                !.set = IF i = 0
                                        THEN NewUser("Ana", req.email,
                                                     BcryptHash(req.password), otp, now)
                                        ELSE ModifiedPaths(mongoUsers[i],
                                                           IssueOtp(mongoUsers[i], otp, now))])
            /\ UNCHANGED mongoUsers
            /\ UNCHANGED <<mongoReady, now, rotVars, aiVars, form>>

\* POST /api/verify-otp and /api/verify-and-login: the record is read and the
\* OTP checked. In memory the OTP is cleared at once; verify-and-login then
\* awaits bcrypt.compare. Persisted: the assignments wait for `await save()`.
BeginVerify(slot) ==
    \E op \in {"verify-otp", "verify-and-login"}, email \in Emails, otp \in generateOTP,
       password \in {"secret1"} :
        LET r   == IF op = "verify-otp"
                   THEN VerifyOtpHandler(mongoUsers, memoryUsers, mongoReady, email, otp, now)
                   ELSE VerifyAndLoginHandler(mongoUsers, memoryUsers, mongoReady,
                                              email, otp, password, now)
            i   == Find(mongoUsers, email)
            req == [Request(op, StorePath, "save", email, otp,
                            IF op = "verify-otp" THEN Undefined ELSE password)
                       EXCEPT !.again = OtpAccepted(op, r) /\ spentOtp[email].signup = otp,
                              !.raced = Racing(slot, {"verify-otp", "verify-and-login"},
                                               email, otp),
                              !.status = r.status, !.message = r.message]
        IN  /\ FirstFree(slot)
            /\ spentOtp' = IF OtpAccepted(op, r)
                           THEN [spentOtp EXCEPT ![email].signup = otp]
                           ELSE spentOtp
            /\ memoryUsers' = r.memory
            /\ IF ~OtpAccepted(op, r)
               THEN Answer(slot, req, r.status, r.message)
               ELSE IF mongoReady
               THEN Await(slot, [req EXCEPT
                        !.idx = i,
                        !.set = ModifiedPaths(mongoUsers[i], MarkVerified(mongoUsers[i]))])
               ELSE IF op = "verify-and-login"
               THEN Await(slot, [req EXCEPT !.phase = "compare"])
               ELSE Answer(slot, req, r.status, r.message)
            /\ UNCHANGED mongoUsers
            /\ UNCHANGED <<mongoReady, now, rotVars, aiVars, form>>

\* bcrypt.compare of the in-memory verify-and-login resolves; the response.
CompareDone(slot) ==
    /\ pending[slot] # Idle
    /\ pending[slot].phase = "compare"
    /\ Answer(slot, pending[slot], pending[slot].status, pending[slot].message)
    /\ UNCHANGED <<mongoUsers, memoryUsers, spentOtp>>
    /\ UNCHANGED <<mongoReady, now, rotVars, aiVars, form>>

\* POST /api/resend-otp: in memory in one step, persisted up to `await save()`.
BeginResend(slot) ==
    \E email \in Emails, otp \in generateOTP :
        LET r   == ResendOtpHandler(mongoUsers, memoryUsers, mongoReady, email, otp, TRUE, now)
            i   == Find(mongoUsers, email)
            req == Request("resend-otp", StorePath, "save", email, Undefined, Undefined)
        IN  /\ FirstFree(slot)
            /\ memoryUsers' = r.memory
            /\ IF mongoReady /\ r.status = 200
               THEN /\ Await(slot, [req EXCEPT
                           !.idx = i, !.status = r.status, !.message = r.message,
                           !.set = ModifiedPaths(mongoUsers[i],
                                                 IssueOtp(mongoUsers[i], otp, now))])
                    /\ spentOtp' = spentOtp
               ELSE /\ Answer(slot, req, r.status, r.message)
                    /\ spentOtp' = IF r.status = 200
                                   THEN [spentOtp EXCEPT ![email].signup = Undefined]
                                   ELSE spentOtp
            /\ UNCHANGED mongoUsers
            /\ UNCHANGED <<mongoReady, now, rotVars, aiVars, form>>

\* POST /api/forgot-password: in memory in one step, persisted up to `await save()`.
BeginForgot(slot) ==
    \E email \in Emails, otp \in generateOTP :
        LET r   == ForgotPasswordHandler(mongoUsers, memoryUsers, mongoReady, mongoReady,
                                         email, otp, TRUE, now)
            i   == Find(mongoUsers, email)
            req == Request("forgot-password", StorePath, "save", email, Undefined, Undefined)
        IN  /\ FirstFree(slot)
            /\ memoryUsers' = r.memory
            /\ IF mongoReady /\ r.status = 200
               THEN /\ Await(slot, [req EXCEPT
                           !.idx = i, !.status = r.status, !.message = r.message,
                           !.set = ModifiedPaths(mongoUsers[i],
                                                 IssueResetOtp(mongoUsers[i], otp, now))])
                    /\ spentOtp' = spentOtp
               ELSE /\ Answer(slot, req, r.status, r.message)
                    /\ spentOtp' = IF r.status = 200
                                   THEN [spentOtp EXCEPT ![email].reset = Undefined]
                                   ELSE spentOtp
            /\ UNCHANGED mongoUsers
            /\ UNCHANGED <<mongoReady, now, rotVars, aiVars, form>>

\* POST /api/reset-password up to `await bcrypt.hash(newPassword, 10)`: the
\* record is read and the reset OTP checked; nothing is assigned yet.
BeginReset(slot) ==
    \E email \in Emails, otp \in generateOTP, newPassword \in Passwords :
        LET r   == ResetPasswordHandler(mongoUsers, memoryUsers, mongoReady, mongoReady,
                                        email, otp, newPassword, now)
            users == IF mongoReady THEN mongoUsers ELSE memoryUsers
            i   == Find(users, email)
            req == [Request("reset-password", StorePath, "save", email, otp, newPassword)
                       EXCEPT !.again = r.status = 200 /\ spentOtp[email].reset = otp,
                              !.status = r.status, !.message = r.message]
        IN  /\ FirstFree(slot)
            /\ IF r.status = 200
               THEN /\ Await(slot, [req EXCEPT
                           !.idx = i,
                           !.set = ModifiedPaths(users[i],
                                       ApplyReset(users[i], BcryptHash(newPassword)))])
                    /\ spentOtp' = [spentOtp EXCEPT ![email].reset = otp]
               ELSE /\ Answer(slot, req, r.status, r.message)
                    /\ spentOtp' = spentOtp
            /\ UNCHANGED <<mongoUsers, memoryUsers>>
            /\ UNCHANGED <<mongoReady, now, rotVars, aiVars, form>>

\* The write a request in flight was waiting for, and its response. On the
\* persisted path save() inserts a new document (the unique index on email
\* refuses a second one: save() throws and the handler answers 500) or
\* updates the modified paths of an existing one. In memory (reset-password)
\* the assignments are made on the object of the list.
Write(slot) ==
    LET req == pending[slot]
        refused == req.path = "mongo" /\ req.idx = 0 /\ Find(mongoUsers, req.email) # 0
    IN  /\ req # Idle
        /\ req.phase = "save"
        /\ IF req.path = "memory"
           THEN /\ memoryUsers' = [memoryUsers EXCEPT ![req.idx] = Patch(@, req.set)]
                /\ UNCHANGED mongoUsers
           ELSE /\ mongoUsers' =
                      IF req.idx = 0
                      THEN IF refused THEN mongoUsers ELSE Append(mongoUsers, req.set)
                      ELSE [mongoUsers EXCEPT ![req.idx] = Patch(@, req.set)]
                /\ UNCHANGED memoryUsers
        /\ spentOtp' =
              IF refused THEN spentOtp
              ELSE IF req.op \in {"signup", "resend-otp"}
              THEN [spentOtp EXCEPT ![req.email].signup = Undefined]
              ELSE IF req.op = "forgot-password"
              THEN [spentOtp EXCEPT ![req.email].reset = Undefined]
              ELSE spentOtp
        /\ IF refused
           THEN Answer(slot, req, 500, "Signup failed")
           ELSE Answer(slot, req, req.status, req.message)
        /\ UNCHANGED <<mongoReady, now, rotVars, aiVars, form>>

InitRace ==
    /\ mongoUsers = <<>>
    /\ memoryUsers = <<>>
    /\ mongoReady \in BOOLEAN
    /\ now = 0
    /\ last = Request("none", "none", "none", Undefined, Undefined, Undefined)
    /\ spentOtp = [e \in Emails |-> [signup |-> Undefined, reset |-> Undefined]]
    /\ pending = NoPending
    /\ RotIdle
    /\ AiIdle
    /\ form = AuthMounted

NextRace ==
    \E slot \in RequestSlots :
        \/ ReceiveSignup(slot)
        \/ ProceedSignup(slot)
        \/ BeginVerify(slot)
        \/ CompareDone(slot)
        \/ BeginResend(slot)
        \/ BeginForgot(slot)
        \/ BeginReset(slot)
        \/ Write(slot)

SpecRace == InitRace /\ [][NextRace]_vars

(***************************************************************************)
(* Claims about requests in flight together, checked under SpecRace.       *)
(***************************************************************************)
InFlight == {slot \in RequestSlots : pending[slot] # Idle}

NoDuplicateEmail(users) ==
    \A i, j \in 1..Len(users) : users[i].email = users[j].email => i = j

\* The Signup in `slot` found no record and pushes one.
PushesRecord(slot) ==
    /\ ProceedSignup(slot)
    /\ Len(memoryUsers') = Len(memoryUsers) + 1

\* C22 as stated: in the in-memory fallback a Signup in flight for an email
\* that had no record when the request arrived can still insert a record of
\* its own after a concurrent Signup has inserted one for that email, so that
\* the list ends up with two records with the same email.
C22_Original ==
    \A slot \in InFlight :
        (/\ ~mongoReady
         /\ pending[slot].op = "signup"
         /\ pending[slot].fresh
         /\ KnownIn(memoryUsers, pending[slot].email))
        => ENABLED PushesRecord(slot)

\* C22, amended: in the in-memory fallback the 'exists' check and the insert
\* of Signup run without an await between them, so of two concurrent Signup
\* requests for the same new email the first to get there inserts the record
\* and the second finds it: the list never holds two records with the same
\* email.
C22_Amended ==
    /\ NoDuplicateEmail(memoryUsers)
    /\ (last.op = "signup" /\ last.path = "memory" /\ last.fresh /\ last.status = 200)
           => last.message \in {"OTP sent to email (memory)",
                                "User exists but not verified - OTP resent (memory)"}

\* Two Signup requests for a new email were in flight together; the second to
\* get to the check found the record of the first.
C22_Witness ==
    /\ last.op = "signup"
    /\ last.path = "memory"
    /\ last.fresh
    /\ last.message = "User exists but not verified - OTP resent (memory)"
    /\ Len(memoryUsers) = 1

VerifyOps == {"verify-otp", "verify-and-login"}

\* C24: on the persisted path a VerifyOtp or VerifyAndLogin that reads the
\* record while another request that presented the same OTP is between its
\* check and its save still sees the OTP and is accepted as well; an OTP is
\* accepted a second time in that window only.
C24_StaleRead ==
    mongoReady =>
        /\ \A slot \in InFlight :
               (pending[slot].op \in VerifyOps /\ pending[slot].again)
               => pending[slot].raced
        /\ (last.op \in VerifyOps /\ last.again) => last.raced

\* A request was answered 200 for an OTP that another request, still before
\* its save when this one read the record, had been accepted with.
C24_Witness ==
    /\ mongoReady
    /\ last.op \in VerifyOps
    /\ last.status = 200
    /\ last.again
    /\ last.raced

\* C25: in the in-memory path no OTP passes the check of VerifyOtp or
\* VerifyAndLogin twice unless an OTP has been stored in between, however the
\* requests interleave.
C25_MemoryOnce ==
    ~mongoReady =>
        /\ \A slot \in InFlight : pending[slot].op \in VerifyOps => ~pending[slot].again
        /\ last.op \in VerifyOps => ~last.again

\* A VerifyOtp presented the OTP that a VerifyAndLogin still in flight had been
\* accepted with, and was refused.
C25_Witness ==
    /\ ~mongoReady
    /\ last.op = "verify-otp"
    /\ last.status = 400
    /\ last.raced
    /\ \E slot \in InFlight :
           pending[slot].op = "verify-and-login" /\ pending[slot].phase = "compare"

\* C26: of the ResetPassword requests that present one issued reset OTP, in
\* either store and however they interleave, at most one is answered 200 and
\* changes the password.
C26_ResetOnce ==
    (last.op = "reset-password" /\ last.status = 200) => ~last.again

\* A second ResetPassword was answered 200 for the same reset OTP, in memory
\* and in the collection.
C26_MemoryTwice ==
    ~mongoReady /\ last.op = "reset-password" /\ last.status = 200 /\ last.again
C26_MongoTwice ==
    mongoReady /\ last.op = "reset-password" /\ last.status = 200 /\ last.again

(***************************************************************************)
(* SpecRotRace: generation requests in flight together. Each generation    *)
(* function calls getAIClient() first thing, synchronously, and then       *)
(* awaits generateContent; getAIClient itself has no await, so it reads    *)
(* the cursor and advances it before any other call can run.               *)
(***************************************************************************)
ReadThenAdvanceLater(i) == [index |-> i, key |-> KeyAt(i), next |-> i]

\* const key = apiKeys[currentIndex]; currentIndex = (currentIndex + 1) % length
ReadAndAdvance(i) == [index |-> i, key |-> KeyAt(i), next |-> NextIndex(i)]

\* A generation function from its call to `await ai.models.generateContent`.
StartGeneration(slot, fn) ==
    /\ Len(calls) < MaxCalls
    /\ FirstFree(slot)
    /\ LET got == ReadAndAdvance(currentIndex)
           t   == Transport(got.key)
       IN  /\ calls' = Append(calls, [fn |-> fn, kind |-> t.kind, key |-> t.key,
                                      index |-> got.index])
           /\ currentIndex' = IF useServerProxy THEN currentIndex ELSE got.next
           /\ pending' = [pending EXCEPT ![slot] =
                              [op |-> fn, call |-> Len(calls) + 1, index |-> got.index,
                               kind |-> t.kind, key |-> t.key]]
    /\ UNCHANGED <<apiKeys, mongoUsers, memoryUsers, mongoReady, now, last, spentOtp,
                   aiVars, form>>

\* The provider has answered (or failed): the request is over.
FinishGeneration(slot) ==
    /\ pending[slot] # Idle
    /\ pending' = MoveUp([pending EXCEPT ![slot] = Idle], slot)
    /\ UNCHANGED <<rotVars, mongoUsers, memoryUsers, mongoReady, now, last, spentOtp,
                   aiVars, form>>

NextRotRace ==
    \/ \E slot \in RequestSlots, fn \in {"generateStudyNotes", "generateFlashcards"} : StartGeneration(slot, fn)
    \/ \E slot \in RequestSlots : FinishGeneration(slot)
    \/ chooseKeyForTest

SpecRotRace == InitRot /\ [][NextRotRace]_vars

(***************************************************************************)
(* Claims about the rotation with requests in flight, under SpecRotRace.   *)
(***************************************************************************)
\* A new request is handed an index other than the one after the index of the
\* request in `slot`: the same index again, or one further on.
OutOfTurn(slot) ==
    \E other \in RequestSlots, fn \in {"generateStudyNotes", "generateFlashcards"} :
        /\ StartGeneration(other, fn)
        /\ pending'[other].index # (pending[slot].index + 1) % Len(apiKeys)

\* C23 as stated: with N >= 2 keys, while a generation request is in flight
\* that made the latest call of the resolver, a concurrent request can be
\* given the same index, or an index can be skipped.
C23_Original ==
    \A slot \in InFlight :
        (/\ Len(apiKeys) >= 2
         /\ pending[slot].call = Len(calls)
         /\ Len(calls) < MaxCalls
         /\ \E other \in RequestSlots : pending[other] = Idle)
        => ENABLED OutOfTurn(slot)

\* C23, amended: getAIClient reads the cursor and advances it in one
\* synchronous step, so requests in flight together are handed indexes in
\* turn like any others: of two requests in flight, the one that called the
\* resolver d calls after the other holds the index d further on (mod N);
\* with N >= 2 no two consecutive calls get the same index and no index is
\* skipped.
C23_Amended ==
    LET N == Len(apiKeys) IN
    N >= 2 =>
        /\ \A a, b \in InFlight :
               pending[a].call < pending[b].call
               => pending[b].index
                      = (pending[a].index + pending[b].call - pending[a].call) % N
        /\ \A k \in 1..(Len(calls) - 1) : calls[k + 1].index = (calls[k].index + 1) % N

\* Two generation requests in flight together on a pool of two keys, the
\* second called right after the first: they hold different keys.
C23_Witness ==
    /\ Len(apiKeys) = 2
    /\ InFlight = {1, 2}
    /\ pending[2].call = pending[1].call + 1
    /\ pending[1].index = 1
    /\ pending[2].index = 0
    /\ pending[1].key # pending[2].key

(***************************************************************************)
(* SpecMixed: requests handled one at a time while the database connection *)
(* comes and goes. mongoose connects in the background (the server listens *)
(* whether or not it succeeded) and every handler asks mongoReady() when   *)
(* it needs it; forgot-password and reset-password ask twice, with an      *)
(* await in between.                                                       *)
(***************************************************************************)
\* mongoose.connection.readyState changes between two requests.
ConnectivityChanges ==
    /\ mongoReady' = ~mongoReady
    /\ UNCHANGED <<mongoUsers, memoryUsers, now, last, spentOtp, pending, rotVars, aiVars, form>>

\* The routes that ask mongoReady() once. The requests of this specification
\* carry every field their route requires, and name Ana.
MixedRequest(op) ==
    \E email \in Emails, password \in Passwords, otp \in generateOTP, mailOk \in BOOLEAN :
        CASE op = "signup" ->
                 Respond(op, email, Undefined, password,
                         SignupHandler(mongoUsers, memoryUsers, mongoReady,
                                       "Ana", email, password, otp, mailOk, now))
          [] op = "login" ->
                 Respond(op, email, Undefined, password,
                         LoginHandler(mongoUsers, memoryUsers, mongoReady, email, password))
          [] op = "verify-otp" ->
                 Respond(op, email, otp, Undefined,
                         VerifyOtpHandler(mongoUsers, memoryUsers, mongoReady,
                                          email, otp, now))
          [] op = "resend-otp" ->
                 Respond(op, email, Undefined, Undefined,
                         ResendOtpHandler(mongoUsers, memoryUsers, mongoReady,
                                          email, otp, mailOk, now))
          [] OTHER ->
                 Respond(op, email, otp, password,
                         VerifyAndLoginHandler(mongoUsers, memoryUsers, mongoReady,
                                               email, otp, password, now))

\* forgot-password: readyAtSave is what mongoReady() says after the findOne.
MixedForgotPassword ==
    \E email \in Emails, otp \in generateOTP, mailOk \in BOOLEAN,
       readyAtSave \in BOOLEAN :
        Respond("forgot-password", email, Undefined, Undefined,
                ForgotPasswordHandler(mongoUsers, memoryUsers, mongoReady, readyAtSave,
                                      email, otp, mailOk, now))

\* reset-password: readyAtSave is what mongoReady() says after bcrypt.hash.
MixedResetPassword ==
    \E email \in Emails, otp \in generateOTP, newPassword \in Passwords,
       readyAtSave \in BOOLEAN :
        Respond("reset-password", email, otp, newPassword,
                ResetPasswordHandler(mongoUsers, memoryUsers, mongoReady, readyAtSave,
                                     email, otp, newPassword, now))

NextMixed ==
    \/ MixedRequest("signup")
    \/ MixedRequest("login")
    \/ MixedRequest("verify-otp")
    \/ MixedRequest("resend-otp")
    \/ MixedRequest("verify-and-login")
    \/ MixedForgotPassword
    \/ MixedResetPassword
    \/ ConnectivityChanges

SpecMixed == Init /\ [][NextMixed]_vars

(***************************************************************************)
(* Claims about passwords, names and responses, checked under SpecMixed.   *)
(***************************************************************************)
\* The step is the handling of one request of kind op.
HandledStep(op) == RequestStep(op) /\ mongoReady' = mongoReady

\* Record i of both lists before and after the step (a list never shrinks).
NameKept(before, after) ==
    \A i \in 1..Len(before) : after[i].name = before[i].name

PasswordChangedOnlyByReset(before, after) ==
    \A i \in 1..Len(before) :
        after[i].password # before[i].password
        => /\ HandledStep("reset-password")
           /\ last'.status = 200
           /\ after[i].email = last'.email
           /\ after[i].password = BcryptHash(last'.password)

\* C27: the stored password hash and name of an existing record change only
\* through a successful ResetPassword, and then the password only; a repeated
\* Signup leaves the first Signup's password in place.
C27_PasswordFrame ==
    [][ /\ NameKept(mongoUsers, mongoUsers')
        /\ NameKept(memoryUsers, memoryUsers')
        /\ PasswordChangedOnlyByReset(mongoUsers, mongoUsers')
        /\ PasswordChangedOnlyByReset(memoryUsers, memoryUsers') ]_vars

\* A repeated Signup with another password was answered 200 on an unverified
\* record, which keeps the first password.
C27_RepeatedSignupReached ==
    /\ last.op = "signup"
    /\ last.status = 200
    /\ last.password = "secret2"
    /\ Known(last.email)
    /\ Rec(last.email).password = BcryptHash("secret1")

\* A ResetPassword answered 500 and the in-memory record holds its password.
C27_ChangedByFailedReset ==
    /\ last.op = "reset-password"
    /\ last.status = 500
    /\ KnownIn(memoryUsers, last.email)
    /\ RecOf(memoryUsers, last.email).password = BcryptHash(last.password)
    /\ last.password = "secret2"

\* The store the request read its record from.
UsersRead(mongo, memory) == IF last'.path = "mongo" THEN mongo ELSE memory

RecordUnchanged ==
    \A i \in 1..Len(UsersRead(mongoUsers, memoryUsers)) :
        UsersRead(mongoUsers, memoryUsers)[i].email = last'.email
        => UsersRead(mongoUsers', memoryUsers')[i] = UsersRead(mongoUsers, memoryUsers)[i]

ResetOtpStored ==
    \E i \in 1..Len(UsersRead(mongoUsers, memoryUsers)), otp \in generateOTP :
        /\ UsersRead(mongoUsers, memoryUsers)[i].email = last'.email
        /\ UsersRead(mongoUsers', memoryUsers')[i]
               = IssueResetOtp(UsersRead(mongoUsers, memoryUsers)[i], otp, now)

NewPasswordStored ==
    \E i \in 1..Len(UsersRead(mongoUsers, memoryUsers)) :
        /\ UsersRead(mongoUsers, memoryUsers)[i].email = last'.email
        /\ UsersRead(mongoUsers', memoryUsers')[i]
               = ApplyReset(UsersRead(mongoUsers, memoryUsers)[i],
                            BcryptHash(last'.password))

\* C28: whatever the connectivity does while the request is in flight, a 200
\* of ForgotPassword means the new resetOtp is stored in the store the record
\* was read from, a 200 of ResetPassword means the new password is stored
\* there with resetOtp cleared, and an error response of either means the
\* record is unchanged.
C28_ResponseAgrees ==
    [][ /\ (HandledStep("forgot-password") /\ last'.status = 200) => ResetOtpStored
        /\ (HandledStep("reset-password") /\ last'.status = 200) => NewPasswordStored
        /\ ((HandledStep("forgot-password") \/ HandledStep("reset-password"))
               /\ last'.status >= 400) => RecordUnchanged ]_vars

\* ResetPassword answered 200 on the persisted path and the collection still
\* holds the old password and the reset OTP.
C28_AnsweredButNotStored ==
    /\ last.op = "reset-password"
    /\ last.status = 200
    /\ last.path = "mongo"
    /\ KnownIn(mongoUsers, last.email)
    /\ RecOf(mongoUsers, last.email).password # BcryptHash(last.password)
    /\ RecOf(mongoUsers, last.email).resetOtp = last.otp

(***************************************************************************)
(* SpecForm: the Auth component (components/Auth.tsx). `form` holds its    *)
(* useState values, the handleSubmit that awaits a response (with the mode *)
(* of the render it was started from) and the setTimeout callbacks not yet *)
(* run. The server is the set of responses its routes can give to the      *)
(* request.                                                                *)
(***************************************************************************)
\* What the user types: strings of the lengths and kinds the form tells apart.
\* A value of an OTP box (maxLength 1) is empty, a digit or something else.
Typed(field) ==
    CASE field = "name" -> {"", "Ana"}
      [] field = "email" -> {"", "ana@x.com"}
      [] field = "password" -> {"", "abc", "secret1"}
      [] field = "confirmPassword" -> {"", "secret1"}
      [] OTHER -> {"", "1", "x"}

\* /^\d*$/.test(value), for the values typed
IsDigits(value) == value \in {"", "1"}

\* formData.otp.join('')
RECURSIVE JoinOtp(_)
JoinOtp(otp) == IF otp = <<>> THEN "" ELSE Head(otp) \o JoinOtp(Tail(otp))

\* The fields rendered, all of them `required`, in each mode.
RequiredFields(mode) ==
    CASE mode = "LOGIN" -> {"email", "password"}
      [] mode = "SIGNUP" -> {"name", "email", "password"}
      [] mode = "FORGOT_PASSWORD" -> {"email"}
      [] mode = "RESET_PASSWORD" -> {"password", "confirmPassword"}
      [] OTHER -> {}

\* onChange of a rendered input: setFormData({...formData, [field]: value})
TypeField(field, value) ==
    /\ ~form.loggedIn
    /\ field \in RequiredFields(form.mode)
    /\ form' = [form EXCEPT ![field] = value]
    /\ UNCHANGED <<rotVars, authVars, aiVars>>

\* handleOtpChange(index, value), index from 0; the boxes exist in OTP_VERIFY only.
handleOtpChange(index, value) ==
    /\ ~form.loggedIn
    /\ form.mode = "OTP_VERIFY"
    /\ form' = IF ~IsDigits(value) THEN form
               ELSE [form EXCEPT !.otp[index + 1] = value]
    /\ UNCHANGED <<rotVars, authVars, aiVars>>

\* The buttons that call setMode: Forgot?, Create Account, Log In, Back to Sign In.
ModeButtons(mode) ==
    CASE mode = "LOGIN" -> {"FORGOT_PASSWORD", "SIGNUP"}
      [] OTHER -> {"LOGIN"}

setMode(mode) ==
    /\ ~form.loggedIn
    /\ mode \in ModeButtons(form.mode)
    /\ form' = [form EXCEPT !.mode = mode]
    /\ UNCHANGED <<rotVars, authVars, aiVars>>

\* A setTimeout callback runs: () => setMode(mode)
TimerFires(mode) ==
    /\ ~form.loggedIn
    /\ mode \in form.timers
    /\ form' = [form EXCEPT !.mode = mode, !.timers = @ \ {mode}]
    /\ UNCHANGED <<rotVars, authVars, aiVars>>

\* The throw of handleSubmit before its fetch, "" when it passes.
ClientError(f) ==
    CASE f.mode = "SIGNUP" ->
             IF Falsy(f.name) \/ Falsy(f.email) \/ Falsy(f.password)
             THEN "All fields are required" ELSE ""
      [] f.mode = "OTP_VERIFY" ->
             IF Len(JoinOtp(f.otp)) # 6 THEN "Please enter a 6-digit code" ELSE ""
      [] f.mode = "FORGOT_PASSWORD" ->
             IF Falsy(f.email) THEN "Please enter your email" ELSE ""
      [] f.mode = "RESET_PASSWORD" ->
             IF f.password # f.confirmPassword THEN "Passwords do not match"
             ELSE IF Len(f.password) < 6 THEN "Password must be at least 6 characters"
             ELSE ""
      [] OTHER -> ""

\* The url and JSON body of the fetch of each mode.
FetchOf(f) ==
    CASE f.mode = "LOGIN" ->
             [url |-> "/api/login", name |-> Undefined, email |-> f.email,
              otp |-> Undefined, password |-> f.password]
      [] f.mode = "SIGNUP" ->
             [url |-> "/api/signup", name |-> f.name, email |-> f.email,
              otp |-> Undefined, password |-> f.password]
      [] f.mode = "OTP_VERIFY" ->
             [url |-> "/api/verify-and-login", name |-> Undefined, email |-> f.email,
              otp |-> JoinOtp(f.otp), password |-> f.password]
      [] f.mode = "FORGOT_PASSWORD" ->
             [url |-> "/api/forgot-password", name |-> Undefined, email |-> f.email,
              otp |-> Undefined, password |-> Undefined]
      [] OTHER ->
             [url |-> "/api/reset-password", name |-> Undefined, email |-> f.email,
              otp |-> JoinOtp(f.otp), password |-> f.password]

\* finally { if (mode !== 'SIGNUP' && mode !== 'FORGOT_PASSWORD') setLoading(false) }
\* where mode is the mode of the render handleSubmit was started from.
Finally(f, mode) ==
    IF mode # "SIGNUP" /\ mode # "FORGOT_PASSWORD" THEN [f EXCEPT !.loading = FALSE] ELSE f

\* catch (err) { setError(err.message || 'Request failed') }
Caught(f, message) == [f EXCEPT !.error = IF message = "" THEN "Request failed" ELSE message]

\* handleSubmit from the submit event to its first await. The button is
\* disabled while loading, and the browser submits no form with an empty
\* required field.
handleSubmit ==
    /\ ~form.loggedIn
    /\ ~form.loading
    /\ \A field \in RequiredFields(form.mode) : form[field] # ""
    /\ LET cleared == [form EXCEPT !.error = "", !.success = "", !.loading = TRUE]
           thrown  == ClientError(form)
       IN  form' = IF thrown # ""
                   THEN Finally(Caught(cleared, thrown), form.mode)
                   ELSE [cleared EXCEPT !.run = [mode |-> form.mode, fetch |-> FetchOf(form)]]
    /\ UNCHANGED <<rotVars, authVars, aiVars>>

\* What the routes of server.js can answer to a request: the refusal of a
\* request with a missing field, else any response of the route. `failed` is
\* a fetch that rejects.
Answered(kind, message) == [kind |-> kind, message |-> message]

ServerAnswers(fetch) ==
    {Answered("failed", "Failed to fetch")} \cup
    CASE fetch.url = "/api/login" ->
             {Answered("ok", "Login successful"), Answered("error", "Invalid credentials"),
              Answered("error", "Please verify your email first"), Answered("error", "Login failed")}
      [] fetch.url = "/api/signup" ->
             IF Falsy(fetch.name) \/ Falsy(fetch.email) \/ Falsy(fetch.password)
             THEN {Answered("error", "All fields required")}
             ELSE {Answered("ok", "OTP sent to email"),
                   Answered("ok", "User created but failed to send OTP email. Please request resend."),
                   Answered("error", "User exists"), Answered("error", "Signup failed")}
      [] fetch.url = "/api/verify-and-login" ->
             IF Falsy(fetch.email) \/ Falsy(fetch.otp) \/ Falsy(fetch.password)
             THEN {Answered("error", "Email, OTP and password required")}
             ELSE {Answered("ok", "Login successful"), Answered("error", "User not found"),
                   Answered("error", "Invalid or expired OTP"), Answered("error", "Invalid credentials"),
                   Answered("error", "Verify and login failed")}
      [] fetch.url = "/api/forgot-password" ->
             IF Falsy(fetch.email)
             THEN {Answered("error", "Email required")}
             ELSE {Answered("ok", "Reset OTP sent"), Answered("error", "User not found"),
                   Answered("error", "Forgot password failed")}
      [] OTHER ->
             IF Falsy(fetch.email) \/ Falsy(fetch.otp) \/ Falsy(fetch.password)
             THEN {Answered("error", "All fields required")}
             ELSE {Answered("ok", "Password reset successful"),
                   Answered("error", "Invalid or expired OTP"),
                   Answered("error", "Reset password failed")}

\* msg.toLowerCase().includes('failed to send otp'), for the messages of signup
MailFailedMessage(message) ==
    message = "User created but failed to send OTP email. Please request resend."

\* The rest of the try block of handleSubmit after a response with res.ok.
OnOk(f, mode, message) ==
    CASE mode = "LOGIN" -> [f EXCEPT !.loggedIn = TRUE]
      [] mode = "SIGNUP" ->
             IF MailFailedMessage(message)
             THEN [f EXCEPT !.mode = "OTP_VERIFY", !.otp = EmptyOtp, !.success = message,
                            !.loading = FALSE]
             ELSE [f EXCEPT !.mode = "OTP_VERIFY", !.otp = EmptyOtp, !.success = message,
                            !.loading = FALSE]
      [] mode = "OTP_VERIFY" -> [f EXCEPT !.loggedIn = TRUE]
      [] mode = "FORGOT_PASSWORD" ->
             [f EXCEPT !.success = "Reset instructions sent to your email!",
                       !.timers = @ \cup {"RESET_PASSWORD"}, !.loading = FALSE]
      [] OTHER ->
             [f EXCEPT !.success = "Password updated successfully!",
                       !.timers = @ \cup {"LOGIN"}]

\* handleSubmit from the settling of its fetch to its end.
Settle(answer) ==
    /\ form.run # NoRun
    /\ answer \in ServerAnswers(form.run.fetch)
    /\ LET over == [form EXCEPT !.run = NoRun] IN
       form' = IF answer.kind = "ok"
               THEN Finally(OnOk(over, form.run.mode, answer.message), form.run.mode)
               ELSE Finally(Caught(over, answer.message), form.run.mode)
    /\ UNCHANGED <<rotVars, authVars, aiVars>>

InitForm ==
    /\ RotIdle
    /\ AuthIdle
    /\ AiIdle
    /\ form = AuthMounted

NextForm ==
    \/ \E value \in Typed("name") : TypeField("name", value)
    \/ \E value \in Typed("email") : TypeField("email", value)
    \/ \E value \in Typed("password") : TypeField("password", value)
    \/ \E value \in Typed("confirmPassword") : TypeField("confirmPassword", value)
    \/ \E index \in 0..5, value \in Typed("otp") : handleOtpChange(index, value)
    \/ \E mode \in AuthModes : setMode(mode)
    \/ \E mode \in AuthModes : TimerFires(mode)
    \/ handleSubmit
    \/ \E answer \in (IF form.run = NoRun THEN {} ELSE ServerAnswers(form.run.fetch)) :
           Settle(answer)

SpecForm == InitForm /\ [][NextForm]_vars

(***************************************************************************)
(* Claims about the Auth form, checked under SpecForm.                     *)
(***************************************************************************)
\* C29: every handleSubmit run leaves loading false again, in every mode and
\* for every outcome. Only handleSubmit sets loading, and the button stays
\* disabled while it is true, so the claim is that once no run awaits a
\* response, loading is false.
C29_LoadingCleared ==
    form.run = NoRun => ~form.loading

\* A Signup submission was answered with an error and the form still loads.
C29_StuckAfterSignupError ==
    /\ form.run = NoRun
    /\ form.mode = "SIGNUP"
    /\ form.error = "User exists"
    /\ form.loading

\* A fetch of reset-password can be answered 200.
ResetAnswered200 == Settle(Answered("ok", "Password reset successful"))

\* C30: a RESET_PASSWORD submission (the mode is entered only after a
\* successful FORGOT_PASSWORD submission) with two equal passwords of at least
\* 6 characters sends a non-empty 6-digit otp to /api/reset-password, so the
\* request can be answered 200 'Password reset successful'.
C30_ResetSendsCode ==
    (form.run # NoRun /\ form.run.mode = "RESET_PASSWORD")
    => /\ form.run.fetch.url = "/api/reset-password"
       /\ Len(form.run.fetch.otp) = 6
       /\ ENABLED ResetAnswered200

\* The reset request is in flight with an empty otp, from a form whose OTP
\* boxes were never shown.
C30_EmptyCodeSent ==
    /\ form.run # NoRun
    /\ form.run.mode = "RESET_PASSWORD"
    /\ form.run.fetch.otp = ""
    /\ form.run.fetch.password = "secret1"

====
